---------------------------- MODULE Spec2Model ----------------------------
(***************************************************************************)
(* Model of the clustering core of slack-cluster-finder:                   *)
(*   backend/clustering_service.py, backend/hierarchical_clustering_       *)
(*   service.py and backend/cluster_orchestrator.py.                       *)
(*                                                                         *)
(* Message indices are 0-based as in the Python code; a Python list is a   *)
(* TLA+ sequence, so the item with index i sits at position i + 1.         *)
(***************************************************************************)
EXTENDS Integers, Sequences, FiniteSets, TLC

(***************************************************************************)
(* Bounds of the model.                                                    *)
(***************************************************************************)
MaxItems == 5        \* longest label vector given to the size filters
MaxLabel == 2        \* raw labels are drawn from 0..MaxLabel
MaxMinSize == 3      \* minimum group sizes are drawn from 1..MaxMinSize
MaxMsgs == 3         \* longest message list given to create_hierarchy
MaxTicks == 1        \* how often the wall clock advances between two runs
MaxConvs == 4        \* most embeddings given to create_hierarchy without messages
MaxRows == 3         \* most rows of an embedding matrix whose centroid is taken
BlockLen == 2        \* tokens of a cache file that reach the disk in one write

(***************************************************************************)
(* Generic helpers for Python lists, sets and numpy vectors.               *)
(***************************************************************************)
Range(s) == {s[p] : p \in DOMAIN s}

SetMin(S) == CHOOSE x \in S : \A y \in S : x <= y

SetMax(S) == CHOOSE x \in S : \A y \in S : y <= x

\* the position of x in the descending enumeration of S
Rank_descending(S, x) == Cardinality({y \in S : y > x})

\* position of x in sorted(S), i.e. enumerate(sorted(S))
Rank(S, x) == Cardinality({y \in S : y < x})

\* the largest element of S whatever the rank asked for
Unrank_largest(S, k) == SetMax(S)

\* the element of S whose rank is k
Unrank(S, k) == CHOOSE x \in S : Rank(S, x) = k

\* a vector of ones
Zeros_ones(n) == [p \in 1..n |-> 1]

\* np.zeros(n, dtype=int)
Zeros(n) == [p \in 1..n |-> 0]

\* list(range(n))
RangeList(n) == [p \in 1..n |-> p - 1]

\* the 0-based indices of I in ascending order (np.where(mask)[0].tolist())
RECURSIVE AscendingList(_)
AscendingList(I) ==
    IF I = {} THEN <<>>
    ELSE LET m == SetMax(I) IN Append(AscendingList(I \ {m}), m)

SeqsUpTo(S, n) == UNION {[1..k -> S] : k \in 0..n}

(***************************************************************************)
(* HierarchicalClusteringService._filter_small_clusters                    *)
(***************************************************************************)
\* a reassignment to the largest valid label instead of the smallest
H_reassign_target_largest(valid_clusters) == SetMax(valid_clusters)

\* min(valid_clusters), the label that receives the dissolved groups
H_reassign_target(valid_clusters) == SetMin(valid_clusters)

H_filter_small_clusters(labels, min_size, n_messages) ==
    LET unique_labels == Range(labels)
        cluster_sizes == [l \in unique_labels |->
                            Cardinality({p \in DOMAIN labels : labels[p] = l})]
        valid_clusters == {l \in unique_labels : cluster_sizes[l] >= min_size}
    IN  IF valid_clusters = {}
        THEN Zeros(n_messages)
        ELSE LET new_labels == [p \in DOMAIN labels |->
                                  IF labels[p] \in valid_clusters
                                  THEN labels[p]
                                  ELSE H_reassign_target(valid_clusters)]
                 unique_new == Range(new_labels)
                 label_map == [old \in unique_new |-> Rank(unique_new, old)]
             IN  [p \in DOMAIN new_labels |-> label_map[new_labels[p]]]

(***************************************************************************)
(* ClusteringService.cluster_messages, lines 92-97: group the indices by   *)
(* label, and ClusteringService._filter_small_clusters.                    *)
(***************************************************************************)
cluster_to_messages_of(cluster_labels) ==
    [c \in Range(cluster_labels) |->
        AscendingList({p - 1 : p \in {q \in DOMAIN cluster_labels :
                                        cluster_labels[q] = c}})]

\* the leftovers keep the fill value of line 143
C_unclustered_label_unassigned == 0 - 1

\* the label given to the items no valid cluster claimed (line 157)
C_unclustered_label == 0

C_filter_small_clusters(cluster_labels, cluster_to_messages, min_cluster_size, n_messages) ==
    LET valid_clusters == {c \in DOMAIN cluster_to_messages :
                              Len(cluster_to_messages[c]) >= min_cluster_size}
    IN  IF valid_clusters = {}
        THEN [labels |-> Zeros(n_messages),
              cluster_to_messages |-> [c \in {0} |-> RangeList(n_messages)]]
        ELSE LET old_to_new == [old \in valid_clusters |-> Rank(valid_clusters, old)]
                 \* the loop of lines 146-150; a later cluster overwrites an earlier one
                 owners(i) == {c \in valid_clusters :
                                 i \in Range(cluster_to_messages[c])}
                 assigned == [p \in 1..n_messages |->
                                IF owners(p - 1) = {} THEN -1
                                ELSE old_to_new[SetMax(owners(p - 1))]]
                 unclustered_indices ==
                     AscendingList({p - 1 : p \in {q \in 1..n_messages :
                                                     assigned[q] = -1}})
                 new_labels == [p \in 1..n_messages |->
                                  IF assigned[p] = -1 THEN C_unclustered_label
                                  ELSE assigned[p]]
                 new_cluster_to_messages ==
                     [new \in 0..(Cardinality(valid_clusters) - 1) |->
                        IF new = C_unclustered_label
                        THEN cluster_to_messages[Unrank(valid_clusters, new)]
                                \o unclustered_indices
                        ELSE cluster_to_messages[Unrank(valid_clusters, new)]]
             IN  [labels |-> new_labels,
                  cluster_to_messages |-> new_cluster_to_messages]

(***************************************************************************)
(* Messages as the hierarchy service reads them.  A channel is a string;   *)
(* the model uses naturals ordered like the strings they stand for.  A     *)
(* timestamp string is of one of three kinds: "naive" (ISO 8601 without    *)
(* an offset), "aware" (with an offset or a trailing Z; t is the UTC       *)
(* instant) and "bad" (empty or unparsable).  Instants are in seconds.     *)
(***************************************************************************)
time_gap_threshold == 3600

\* default of the constructor parameter "Minimum messages in sub-cluster"
min_sub_cluster_size == 3

\* datetime.fromisoformat(msg.timestamp.replace('Z', '+00:00')), with the
\* fallback datetime.now() (a naive datetime) of lines 280-283
ParseTimestamp(timestamp, now) ==
    IF timestamp.kind = "bad"
    THEN [aware |-> FALSE, t |-> now]
    ELSE [aware |-> (timestamp.kind = "aware"), t |-> timestamp.t]

\* lines 273-291: one msg_data entry per message index
msg_data_of(messages, now) ==
    [p \in DOMAIN messages |->
        [idx |-> p - 1,
         channel |-> messages[p].channel,
         timestamp |-> ParseTimestamp(messages[p].timestamp, now)]]

\* comparing a naive with an aware datetime raises TypeError; the sort key
\* compares the timestamps of two entries only when their channels are equal
SortRaises(msg_data) ==
    \E p, q \in DOMAIN msg_data :
        /\ msg_data[p].channel = msg_data[q].channel
        /\ msg_data[p].timestamp.aware # msg_data[q].timestamp.aware

\* the entries are ordered by timestamp alone
KeyLess_timestamp_only(a, b) == a.timestamp.t < b.timestamp.t

\* the sort key (x['channel'], x['timestamp']): a < b
KeyLess(a, b) ==
    \/ a.channel < b.channel
    \/ a.channel = b.channel /\ a.timestamp.t < b.timestamp.t

\* list.sort is stable: x goes behind every entry that is not greater than it
RECURSIVE InsertSorted(_, _)
InsertSorted(sorted, x) ==
    IF sorted = <<>> THEN <<x>>
    ELSE IF KeyLess(x, sorted[Len(sorted)])
         THEN Append(InsertSorted(SubSeq(sorted, 1, Len(sorted) - 1), x),
                     sorted[Len(sorted)])
         ELSE Append(sorted, x)

RECURSIVE SortMsgData(_)
SortMsgData(msg_data) ==
    IF msg_data = <<>> THEN <<>>
    ELSE InsertSorted(SortMsgData(SubSeq(msg_data, 1, Len(msg_data) - 1)),
                      msg_data[Len(msg_data)])

\* current_channel = None before the first message
NoChannel == -1

\* a gap of exactly the threshold already starts a new conversation
GapTooLarge_inclusive(timestamp, last_timestamp) ==
    timestamp.t - last_timestamp.t >= time_gap_threshold

\* (msg['timestamp'] - last_timestamp).total_seconds() > time_gap_threshold
GapTooLarge(timestamp, last_timestamp) ==
    timestamp.t - last_timestamp.t > time_gap_threshold

\* one iteration of the loop of lines 303-314; the loop state is
\* (conversations, current_conv, current_channel, last_timestamp)
ScanStep(st, msg) ==
    IF \/ st.current_channel # msg.channel
       \/ (st.last_timestamp # <<>>
             /\ GapTooLarge(msg.timestamp, st.last_timestamp[1]))
    THEN [conversations |->
              IF st.current_conv # <<>>
              THEN Append(st.conversations, st.current_conv)
              ELSE st.conversations,
          current_conv |-> <<msg.idx>>,
          current_channel |-> msg.channel,
          last_timestamp |-> <<msg.timestamp>>]
    ELSE [conversations |-> st.conversations,
          current_conv |-> Append(st.current_conv, msg.idx),
          current_channel |-> st.current_channel,
          last_timestamp |-> <<msg.timestamp>>]

\* the loop over the first k entries of the sorted msg_data
RECURSIVE ScanConversations(_, _)
ScanConversations(sorted, k) ==
    IF k = 0
    THEN [conversations |-> <<>>, current_conv |-> <<>>,
          current_channel |-> NoChannel, last_timestamp |-> <<>>]
    ELSE ScanStep(ScanConversations(sorted, k - 1), sorted[k])

\* the scan forgets the conversation that is still open when the loop ends
FinishScan_dropped(st) == st.conversations

\* lines 316-318: add the last conversation
FinishScan(st) ==
    IF st.current_conv # <<>>
    THEN Append(st.conversations, st.current_conv)
    ELSE st.conversations

\* _group_by_conversation: the list of conversations (conversation_groups maps
\* i to the i-th list), or the exception raised by the sort
group_by_conversation(messages, now) ==
    LET msg_data == msg_data_of(messages, now)
    IN  IF SortRaises(msg_data)
        THEN [raised |-> "TypeError", sorted |-> <<>>, conversations |-> <<>>]
        ELSE LET sorted == SortMsgData(msg_data)
                 st == ScanConversations(sorted, Len(sorted))
             IN  [raised |-> "", sorted |-> sorted, conversations |-> FinishScan(st)]

(***************************************************************************)
(* The clustering engine (sklearn's AgglomerativeClustering) is outside the *)
(* repository.  Its result for n >= 2 items is some label vector whose      *)
(* labels are exactly 0..k-1: for the distance-threshold cut any k in 1..n  *)
(* (or an exception, which _cluster_level catches), for the target-count    *)
(* cut k = n_clusters.                                                      *)
(***************************************************************************)
Labelings(n, k) == {l \in [1..n -> 0..(k - 1)] : Range(l) = 0..(k - 1)}

ThresholdCuts(n) ==
    {[raised |-> FALSE, labels |-> l] : l \in UNION {Labelings(n, k) : k \in 1..n}}
        \cup {[raised |-> TRUE, labels |-> <<>>]}

TargetCuts(n, k) == Labelings(n, k)

\* _cluster_level: threshold cut, then the size filter
cluster_level(n, threshold_cut, min_size) ==
    IF n < 2 THEN Zeros(n)
    ELSE IF threshold_cut.raised THEN Zeros(n)
    ELSE H_filter_small_clusters(threshold_cut.labels, min_size, n)

\* does _create_topic_clusters take the branch of lines 185-191?
TooManyClusters(labels, svc) == Cardinality(Range(labels)) > svc.max_clusters

\* the labels of _cluster_level are returned whatever their number
create_topic_clusters_uncapped(n_conversations, svc, threshold_cut, target_cut) ==
    cluster_level(n_conversations, threshold_cut, svc.min_main_cluster_size)

\* _create_topic_clusters; target_cut is what the engine returns for
\* n_clusters = max_clusters
create_topic_clusters(n_conversations, svc, threshold_cut, target_cut) ==
    IF n_conversations < 2 THEN <<0>>
    ELSE LET labels == cluster_level(n_conversations, threshold_cut,
                                     svc.min_main_cluster_size)
         IN  IF TooManyClusters(labels, svc) THEN target_cut ELSE labels

ConvId(i) == <<"conv", i>>        \* f"conv_{conv_id}"

TopicId(t) == <<"topic", t>>      \* f"topic_{topic_id}"

\* the keys of the dict topic_clusters in insertion order (lines 117-122)
RECURSIVE TopicOrder(_, _)
TopicOrder(topic_labels, k) ==
    IF k = 0 THEN <<>>
    ELSE LET before == TopicOrder(topic_labels, k - 1)
         IN  IF topic_labels[k] \in Range(before) THEN before
             ELSE Append(before, topic_labels[k])

RECURSIVE ConcatAll(_)
ConcatAll(lists) ==
    IF lists = <<>> THEN <<>>
    ELSE ConcatAll(SubSeq(lists, 1, Len(lists) - 1)) \o lists[Len(lists)]

\* lines 69-75: the conversation grouping create_hierarchy works with
conversation_groups_of(messages, now) ==
    IF messages # <<>>
    THEN group_by_conversation(messages, now)
    ELSE [raised |-> "", sorted |-> <<>>,
          conversations |-> [p \in 1..Len(messages) |-> <<p - 1>>]]

\* lines 109-112
topic_labels_of(n_conversations, svc, threshold_cut, target_cut) ==
    IF n_conversations > 1
    THEN create_topic_clusters(n_conversations, svc, threshold_cut, target_cut)
    ELSE <<0>>

RaisedHierarchy(exc) ==
    [raised |-> exc, sub_clusters |-> <<>>, main_clusters |-> <<>>,
     message_to_sub_cluster |-> <<>>]

\* every conversation is given the topic of the first conversation as parent
parent_id_of_first(topic_labels, p) == TopicId(topic_labels[1])

\* line 135: conversations[conv_idx]['parent_id'] = topic_id_str
parent_id_of(topic_labels, p) == TopicId(topic_labels[p])

\* lines 116-158 for the conversation lists groups and their topic labels.
\* main_clusters is the dict in insertion order; message_to_sub_cluster maps
\* a message index to the id of its conversation.
assemble_hierarchy(groups, topic_labels) ==
    IF \E p \in DOMAIN topic_labels : p > Len(groups)
    THEN RaisedHierarchy("IndexError")      \* conversations[conv_idx], line 131
    ELSE LET order == TopicOrder(topic_labels, Len(topic_labels))
             conv_indices(t) ==
                 AscendingList({p - 1 : p \in {q \in DOMAIN topic_labels :
                                                 topic_labels[q] = t}})
             main_clusters ==
                 [k \in DOMAIN order |->
                    LET convs == conv_indices(order[k])
                    IN  [id |-> TopicId(order[k]),
                         message_indices |->
                             ConcatAll([c \in DOMAIN convs |-> groups[convs[c] + 1]]),
                         child_ids |-> [c \in DOMAIN convs |-> ConvId(convs[c])]]]
             sub_clusters ==
                 [p \in DOMAIN groups |->
                    [id |-> ConvId(p - 1),
                     message_indices |-> groups[p],
                     parent_id |-> parent_id_of(topic_labels, p)]]
             \* a dict: a later conversation would overwrite an earlier one
             message_to_sub_cluster ==
                 [idx \in Range(ConcatAll(groups)) |->
                    ConvId(SetMax({p \in DOMAIN groups : idx \in Range(groups[p])}) - 1)]
         IN  [raised |-> "", sub_clusters |-> sub_clusters,
              main_clusters |-> main_clusters,
              message_to_sub_cluster |-> message_to_sub_cluster]

\* create_hierarchy from step 2 on, for the grouping of step 1 and the topic
\* labels of step 3
hierarchy_for(grouping, topic_labels) ==
    IF grouping.raised # ""
    THEN RaisedHierarchy(grouping.raised)
    ELSE assemble_hierarchy(grouping.conversations, topic_labels)

(***************************************************************************)
(* cluster_orchestrator.py.  A text is a TLA+ string.  An Optional value   *)
(* is <<>> for None and <<v>> for the value v.  A message_id is <<>> when  *)
(* absent (None or the empty string), <<"id", s>> for a given id s and     *)
(* <<"msg_", c>> for an id generated from the content c.  Embedding         *)
(* vectors and centroids are not part of the model.                        *)
(***************************************************************************)
NoneValue == <<>>

DigitStr(d) == <<"0", "1", "2", "3", "4", "5", "6", "7", "8", "9">>[d + 1]

\* str(x) of a float x given in tenths, 0.0 <= x < 10.0
FormatFloat(tenths) == DigitStr(tenths \div 10) \o "." \o DigitStr(tenths % 10)

\* str(i) of an int 0 <= i < 10
FormatInt(i) == DigitStr(i)

\* f"{distance_threshold}" of an Optional[float]
FormatOptionalFloat(opt) ==
    IF opt = NoneValue THEN "None" ELSE FormatFloat(opt[1])

\* f"{min_cluster_size}" of an Optional[int]
FormatOptionalInt(opt) ==
    IF opt = NoneValue THEN "None" ELSE FormatInt(opt[1])

\* "".join([msg.text for msg in messages])
RECURSIVE JoinTexts(_)
JoinTexts(messages) ==
    IF messages = <<>> THEN ""
    ELSE JoinTexts(SubSeq(messages, 1, Len(messages) - 1))
             \o messages[Len(messages)].text

\* the texts joined with the channel of each message in front of its text
RECURSIVE JoinChannelsAndTexts(_)
JoinChannelsAndTexts(messages) ==
    IF messages = <<>> THEN ""
    ELSE JoinChannelsAndTexts(SubSeq(messages, 1, Len(messages) - 1))
             \o DigitStr(messages[Len(messages)].channel)
             \o messages[Len(messages)].text

\* hashlib.md5(s.encode()).hexdigest(); digests of distinct strings are
\* taken to be distinct
md5_hexdigest(s) == <<"md5", s>>

\* a key that also depends on the channels of the messages
generate_cache_key_with_channels(messages, distance_threshold, min_cluster_size) ==
    md5_hexdigest(JoinChannelsAndTexts(messages)
                    \o FormatOptionalFloat(distance_threshold) \o "_"
                    \o FormatOptionalInt(min_cluster_size))

\* _generate_cache_key
generate_cache_key(messages, distance_threshold, min_cluster_size) ==
    LET content == JoinTexts(messages)
        params == FormatOptionalFloat(distance_threshold) \o "_"
                      \o FormatOptionalInt(min_cluster_size)
    IN  md5_hexdigest(content \o params)

\* _ensure_message_ids: "msg_" and the first 12 hex digits of the md5 of
\* f"{msg.text}_{msg.user}_{msg.timestamp}_{i}"
ensure_message_ids(messages) ==
    [p \in DOMAIN messages |->
        IF messages[p].message_id = NoneValue
        THEN [messages[p] EXCEPT !.message_id =
                 <<"msg_", [text |-> messages[p].text, user |-> messages[p].user,
                            timestamp |-> messages[p].timestamp, i |-> p - 1]>>]
        ELSE messages[p]]

\* a cache file: the JSON document of an output, or something json.load or
\* the ClusteringOutput constructor rejects
CacheFile(result) == [complete |-> TRUE, data |-> result]

CorruptFile == [complete |-> FALSE, data |-> <<>>]

EmptyCache == [k \in {} |-> CorruptFile]

\* _load_from_cache: None when the file is missing or unreadable
load_from_cache(cache, cache_key) ==
    IF cache_key \in DOMAIN cache /\ cache[cache_key].complete
    THEN <<cache[cache_key].data>>
    ELSE NoneValue

\* _save_to_cache: open(cache_path, 'w') and json.dump
save_to_cache(cache, cache_key, result) ==
    [k \in DOMAIN cache \cup {cache_key} |->
        IF k = cache_key THEN CacheFile(result) ELSE cache[k]]

\* main.py clear_cache: shutil.rmtree(CACHE_DIR); os.makedirs(CACHE_DIR)
clear_cache(cache) == EmptyCache

\* models.py: the fields of ClusterInfo; pydantic ignores other keyword
\* arguments of the constructor
ClusterInfoFields ==
    {"cluster_id", "label", "tags", "message_ids", "size",
     "parent_cluster_id", "child_cluster_ids"}

ClusterInfo(kwargs) ==
    [f \in DOMAIN kwargs \cap ClusterInfoFields |-> kwargs[f]]

\* the label service (an LLM with a textual fallback) never raises; what it
\* returns is a function of the texts it is given
generate_cluster_label(texts) == [kind |-> "generated", of |-> texts]

generate_tags(texts) == <<<<"tag", texts>>>>

TextsOf(messages, message_indices) ==
    [p \in DOMAIN message_indices |-> messages[message_indices[p] + 1].text]

IdsOf(messages, message_indices) ==
    [p \in DOMAIN message_indices |-> messages[message_indices[p] + 1].message_id]

FirstN(list, n) == SubSeq(list, 1, IF Len(list) < n THEN Len(list) ELSE n)

\* the label of a conversation, lines 190-204
conversation_label(conversation_texts) ==
    IF Len(conversation_texts) <= 3
    THEN LET first_msg == conversation_texts[1]
         IN  IF Len(first_msg) > 60
             THEN [kind |-> "truncated", of |-> first_msg]
             ELSE [kind |-> "text", of |-> first_msg]
    ELSE generate_cluster_label(FirstN(conversation_texts, 10))

\* _generate_hierarchical_cluster_info: the topics, then the conversations
generate_hierarchical_cluster_info(messages, hierarchy) ==
    LET topic_info(topic_cluster) ==
            LET message_indices == topic_cluster.message_indices
                representative_texts == TextsOf(messages, FirstN(message_indices, 30))
            IN  ClusterInfo([cluster_id |-> topic_cluster.id,
                             label |-> generate_cluster_label(representative_texts),
                             tags |-> generate_tags(representative_texts),
                             message_ids |-> IdsOf(messages, message_indices),
                             size |-> Len(message_indices),
                             parent_cluster_id |-> NoneValue,
                             child_cluster_ids |-> topic_cluster.child_ids,
                             level |-> 2,
                             radius |-> 150])
        \* a channel of the model is a non-empty name other than "unknown"
        conversation_info(conversation) ==
            LET message_indices == conversation.message_indices
                channel == messages[message_indices[1] + 1].channel
            IN  ClusterInfo([cluster_id |-> conversation.id,
                             label |-> conversation_label(
                                           TextsOf(messages, message_indices)),
                             tags |-> <<<<"channel", channel>>>>,
                             message_ids |-> IdsOf(messages, message_indices),
                             size |-> Len(message_indices),
                             parent_cluster_id |-> <<conversation.parent_id>>,
                             child_cluster_ids |-> <<>>,
                             level |-> 1,
                             radius |-> 300])
    IN  [p \in DOMAIN hierarchy.main_clusters |->
            topic_info(hierarchy.main_clusters[p])]
        \o [p \in DOMAIN hierarchy.sub_clusters |->
            conversation_info(hierarchy.sub_clusters[p])]

\* _create_hierarchical_tagged_messages.  Reading info.level of a ClusterInfo
\* that has no such field raises AttributeError (line 286).
create_hierarchical_tagged_messages(messages, hierarchy, cluster_infos) ==
    IF \E p \in DOMAIN cluster_infos : "level" \notin DOMAIN cluster_infos[p]
    THEN [raised |-> "AttributeError", messages |-> <<>>]
    ELSE LET level_1 == {p \in DOMAIN cluster_infos : cluster_infos[p].level = 1}
             \* main_cluster_tags.get(main_cluster_id, [])
             main_cluster_tags(main_cluster_id) ==
                 LET hits == {p \in level_1 :
                                 <<cluster_infos[p].cluster_id>> = main_cluster_id}
                 IN  IF hits = {} THEN <<>> ELSE cluster_infos[SetMax(hits)].tags
             \* sub_to_main.get(sub_cluster_id)
             sub_to_main(sub_cluster_id) ==
                 LET hits == {k \in DOMAIN hierarchy.main_clusters :
                                 sub_cluster_id \in
                                     Range(hierarchy.main_clusters[k].child_ids)}
                 IN  IF hits = {} THEN NoneValue
                     ELSE <<hierarchy.main_clusters[SetMax(hits)].id>>
             tagged(i) ==
                 LET msg == messages[i + 1]
                     sub_cluster_id ==
                         IF i \in DOMAIN hierarchy.message_to_sub_cluster
                         THEN <<hierarchy.message_to_sub_cluster[i]>>
                         ELSE NoneValue
                     main_cluster_id ==
                         IF sub_cluster_id # NoneValue
                         THEN sub_to_main(sub_cluster_id[1])
                         ELSE NoneValue
                 IN  [text |-> msg.text, channel |-> msg.channel,
                      user |-> msg.user, timestamp |-> msg.timestamp,
                      message_id |-> msg.message_id,
                      tags |-> main_cluster_tags(main_cluster_id),
                      cluster_id |-> sub_cluster_id]
         IN  [raised |-> "",
              messages |-> [p \in DOMAIN messages |-> tagged(p - 1)]]

MAX_CLUSTERS == 50

min_main_cluster_size == 5

\* config.DISTANCE_THRESHOLD, in tenths
DISTANCE_THRESHOLD == 10

MIN_CLUSTER_SIZE == 2

\* default of the constructor parameter main_cluster_threshold (1.2), in tenths
main_cluster_threshold == 12

\* get_hierarchical_service(): the service the orchestrator works with
OrchSvc ==
    [max_clusters |-> MAX_CLUSTERS, min_main_cluster_size |-> min_main_cluster_size]

\* the threshold and the minimum size create_hierarchy clusters with (lines
\* 176-180 of the hierarchical service), once the hierarchy stage is entered
params_used(steps) ==
    IF "hierarchy" \in Range(steps)
    THEN <<[distance_threshold |-> main_cluster_threshold,
            min_cluster_size |-> OrchSvc.min_main_cluster_size]>>
    ELSE NoneValue

\* lines 66-67: is the cache consulted?
ShouldReadCache(enable_cache, force_recluster) == enable_cache /\ ~force_recluster

\* the assembled output is written whether or not its assembly succeeded
cache_after_output_unconditional(cache, cache_key, raised, result, enable_cache) ==
    IF enable_cache THEN save_to_cache(cache, cache_key, result) ELSE cache

\* lines 92-125: an exception of the output stage leaves line 125 unexecuted
cache_after_output(cache, cache_key, raised, result, enable_cache) ==
    IF raised = "" /\ enable_cache
    THEN save_to_cache(cache, cache_key, result)
    ELSE cache

\* process_messages, lines 59-129.  env holds what the outside world answers
\* during the call: whether the embedding provider succeeds, the clock, and
\* the cuts of the clustering engine.  steps lists the stages in the order in
\* which they were entered; messages is the caller's list after the call.
process_messages(request, cache, enable_cache, env) ==
    LET cache_key == generate_cache_key(request.messages,
                         request.distance_threshold, request.min_cluster_size)
        consulted == ShouldReadCache(enable_cache, request.force_recluster)
        cached_result == IF consulted THEN load_from_cache(cache, cache_key)
                         ELSE NoneValue
        checked == IF consulted THEN <<"key", "load">> ELSE <<"key">>
        messages == ensure_message_ids(request.messages)
        Raise(exc, steps, new_cache) ==
            [outcome |-> "raised", exc |-> exc, result |-> NoneValue,
             cache |-> new_cache, steps |-> steps, messages |-> messages,
             params |-> params_used(steps)]
        embedded == checked \o <<"ids", "embed">>
    IN  IF cached_result # NoneValue
        THEN [outcome |-> "returned", exc |-> "", result |-> cached_result[1],
              cache |-> cache, steps |-> checked, messages |-> request.messages,
              params |-> params_used(checked)]
        ELSE IF messages # <<>> /\ ~env.embed_ok
        THEN Raise("EmbeddingError", embedded, cache)
        ELSE
        LET grouping == conversation_groups_of(messages, env.now)
            topic_labels == topic_labels_of(Len(grouping.conversations), OrchSvc,
                                            env.threshold_cut, env.target_cut)
            hierarchy == hierarchy_for(grouping, topic_labels)
            assembled == Append(embedded, "hierarchy")
        IN  IF hierarchy.raised # ""
            THEN Raise(hierarchy.raised, assembled, cache)
            ELSE
            LET cluster_infos == generate_hierarchical_cluster_info(messages, hierarchy)
                tagged == create_hierarchical_tagged_messages(
                              messages, hierarchy, cluster_infos)
                metadata ==
                    [total_messages |-> Len(messages),
                     total_clusters |-> Len(cluster_infos),
                     clustering_params |->
                         [distance_threshold |-> DISTANCE_THRESHOLD,
                          min_cluster_size |-> MIN_CLUSTER_SIZE]]
                result == [messages |-> tagged.messages,
                           clusters |-> cluster_infos,
                           metadata |-> metadata]
                new_cache == cache_after_output(cache, cache_key, tagged.raised,
                                                result, enable_cache)
                labelled == assembled \o <<"labels", "output">>
            IN  IF tagged.raised # ""
                THEN Raise(tagged.raised, labelled, new_cache)
                ELSE [outcome |-> "returned", exc |-> "", result |-> result,
                      cache |-> new_cache,
                      steps |-> IF enable_cache THEN Append(labelled, "save")
                                ELSE labelled,
                      messages |-> messages,
                      params |-> params_used(labelled)]

(***************************************************************************)
(* Embedding vectors, centroids and representatives.  An embedding is a    *)
(* vector with integer coordinates in the plane.  The record [vec, scale_sq]*)
(* stands for the real vector vec / sqrt(scale_sq); scale_sq = 0 is the     *)
(* result of a division by the norm 0, which numpy computes as nan without  *)
(* raising.  Rounding is not part of the model.                            *)
(***************************************************************************)
UnitVectors == {<<1, 0>>, <<0, 1>>, <<-1, 0>>, <<0, -1>>}

Dot(a, b) == a[1] * b[1] + a[2] * b[2]

RECURSIVE VecSum(_)
VecSum(rows) ==
    IF rows = <<>> THEN <<0, 0>>
    ELSE LET rest == VecSum(SubSeq(rows, 1, Len(rows) - 1))
             last == rows[Len(rows)]
         IN  <<rest[1] + last[1], rest[2] + last[2]>>

\* embeddings[message_indices]
RowsOf(embeddings, message_indices) ==
    [p \in DOMAIN message_indices |-> embeddings[message_indices[p] + 1]]

\* np.mean(rows, axis=0)
np_mean(rows) == [vec |-> VecSum(rows), scale_sq |-> Len(rows) * Len(rows)]

\* x / np.linalg.norm(x)
normalize(x) == [vec |-> x.vec, scale_sq |-> Dot(x.vec, x.vec)]

IsNaN(x) == x.scale_sq = 0

\* the centroid of lines 87-89 and 137-139 of the hierarchical service and of
\* ClusteringService.compute_cluster_centroids
centroid_of(embeddings, message_indices) ==
    normalize(np_mean(RowsOf(embeddings, message_indices)))

PositionOrders(n) == {p \in [1..n -> 1..n] : Range(p) = 1..n}

\* np.argsort(similarities): the positions in ascending order of similarity.
\* The default sort is not stable, so equal similarities (and nan, which has
\* no order) may come in any order.
ArgSorts(embeddings, cluster_messages, centroid) ==
    LET similarity(i) == Dot(embeddings[cluster_messages[i] + 1], centroid.vec)
    IN  {p \in PositionOrders(Len(cluster_messages)) :
            IsNaN(centroid) \/
            \A i, j \in DOMAIN p : i < j => similarity(p[i]) <= similarity(p[j])}

\* get_representative_messages, for the order np.argsort returned
get_representative_messages(cluster_messages, top_k, argsort) ==
    IF Len(cluster_messages) <= top_k
    THEN cluster_messages
    ELSE LET n == Len(cluster_messages)
             \* argsort[-top_k:][::-1]
             top_k_local == [q \in 1..top_k |-> argsort[n - q + 1]]
         IN  [q \in 1..top_k |-> cluster_messages[top_k_local[q]]]

(***************************************************************************)
(* Search.  The embedding provider is a function of the text; the model    *)
(* knows two texts, embedded as two orthogonal unit vectors.               *)
(***************************************************************************)
\* EmbeddingService.encode_single / one row of encode_messages
encode(text) == IF text = "x" THEN <<1, 0>> ELSE <<0, 1>>

\* encode_messages(texts)
encode_messages(texts) == [p \in DOMAIN texts |-> encode(texts[p])]

\* the comprehension of lines 415-418
any_tag_in(msg, filter_tags) ==
    \E t \in Range(filter_tags) : t \in Range(msg.tags)

\* the messages of the list that carry one of the tags, in their order
RECURSIVE FilterTags(_, _)
FilterTags(list, filter_tags) ==
    IF list = <<>> THEN <<>>
    ELSE LET rest == FilterTags(SubSeq(list, 1, Len(list) - 1), filter_tags)
             last == list[Len(list)]
         IN  IF any_tag_in(last, filter_tags) THEN Append(rest, last) ELSE rest

\* the messages of the list whose cluster is one of filter_clusters (lines
\* 420-423)
RECURSIVE FilterClusters(_, _)
FilterClusters(list, filter_clusters) ==
    IF list = <<>> THEN <<>>
    ELSE LET rest == FilterClusters(SubSeq(list, 1, Len(list) - 1), filter_clusters)
             last == list[Len(list)]
         IN  IF last.cluster_id \in Range(filter_clusters)
             THEN Append(rest, last) ELSE rest

\* lines 413-423; an empty filter list is falsy and filters nothing
filtered_messages_of(messages_with_tags, filter_tags, filter_clusters) ==
    LET by_tags == IF filter_tags # NoneValue /\ filter_tags[1] # <<>>
                   THEN FilterTags(messages_with_tags, filter_tags[1])
                   ELSE messages_with_tags
    IN  IF filter_clusters # NoneValue /\ filter_clusters[1] # <<>>
        THEN FilterClusters(by_tags, filter_clusters[1])
        ELSE by_tags

\* the slice [-top_k:] of a list of n positions begins at position n - top_k;
\* for top_k = 0 it is [-0:], the whole list
TailStart(n, top_k) == IF top_k = 0 THEN 1 ELSE n - top_k + 1

\* EmbeddingService.find_similar for the order np.argsort returned: the row
\* numbers (from 0) of the top rows, best first
find_similar(n_rows, top_k, argsort) ==
    LET k == IF top_k < n_rows THEN top_k ELSE n_rows
        start == TailStart(n_rows, k)
    IN  [q \in 1..(n_rows - start + 1) |-> argsort[n_rows - q + 1] - 1]

\* search_messages for the order np.argsort returned.  A result pairs a
\* message with the similarity of the row it was found at.
search_messages(request, argsort) ==
    LET filtered_messages == filtered_messages_of(request.messages_with_tags,
                                 request.filter_tags, request.filter_clusters)
        embeddings ==
            IF request.embeddings = NoneValue
            THEN encode_messages([p \in DOMAIN filtered_messages |->
                                     filtered_messages[p].text])
            ELSE request.embeddings[1]
        top_k == IF request.top_k < Len(filtered_messages)
                 THEN request.top_k ELSE Len(filtered_messages)
        indices == find_similar(Len(embeddings), top_k, argsort)
    IN  IF filtered_messages = <<>>
        THEN [raised |-> "", results |-> <<>>]
        ELSE IF \E q \in DOMAIN indices : indices[q] >= Len(filtered_messages)
        THEN [raised |-> "IndexError", results |-> <<>>]
        ELSE [raised |-> "",
              results |-> [q \in DOMAIN indices |->
                  [message |-> filtered_messages[indices[q] + 1],
                   score |-> Dot(embeddings[indices[q] + 1],
                                 encode(request.query))]]]

(***************************************************************************)
(* The cache files.  The text of a file is a sequence of JSON tokens; a    *)
(* ClusteringOutput of this part of the model has a label and one centroid *)
(* coordinate, a float given by its decimal text.  The file object buffers *)
(* what json.dump writes and hands it to the disk block by block, the last *)
(* block when the file is closed.                                          *)
(***************************************************************************)
CacheOutputs == [label : {"x", "y"}, centroid : {"1.0", "nan"}]

\* float.__repr__ as json.dump uses it (allow_nan is left at True)
FloatRepr(x) == IF x = "nan" THEN "NaN" ELSE x

\* what json.load makes of a number token
ParseFloat(s) == IF s = "NaN" THEN "nan" ELSE s

\* json.dump(result.model_dump(), f, ...): the text written for an output
json_dump(output) == <<"{", output.label, FloatRepr(output.centroid), "}">>

\* ClusteringOutput(**json.load(f)): the output, or None for a text that
\* json.load or the constructor rejects (JSONDecodeError, ValidationError)
json_load(text) ==
    IF Len(text) = 4 /\ text[1] = "{" /\ text[4] = "}"
          /\ text[2] \in {o.label : o \in CacheOutputs}
          /\ text[3] \in {FloatRepr(o.centroid) : o \in CacheOutputs}
    THEN <<[label |-> text[2], centroid |-> ParseFloat(text[3])]>>
    ELSE NoneValue

NumBlocks(text) == (Len(text) + BlockLen - 1) \div BlockLen

\* where block b of a text begins
BlockStart(b) == (b - 1) * BlockLen + 1

\* block b of a text
BlockOf(text, b) ==
    SubSeq(text, BlockStart(b),
           IF b * BlockLen < Len(text) THEN b * BlockLen ELSE Len(text))

\* write(fd, block) at the position pos of the writer's file description;
\* a hole between the end of the file and pos reads as zero bytes
WriteAt(content, pos, block) ==
    LET end == pos + Len(block) - 1
        n == IF end > Len(content) THEN end ELSE Len(content)
    IN  [q \in 1..n |->
            IF q >= pos /\ q <= end THEN block[q - pos + 1]
            ELSE IF q <= Len(content) THEN content[q]
            ELSE "nul"]

\* the exception escapes the function
swallowed_reraised(exc) == exc

\* except Exception as e: logger.error(...): nothing is raised
swallowed(exc) == ""

\* what _load_from_cache finds under the key
found_in_cache(dir, files, key) ==
    IF ~dir \/ key \notin DOMAIN files THEN "missing"
    ELSE IF json_load(files[key]) = NoneValue THEN "broken"
    ELSE "complete"

\* _load_from_cache on the files of CACHE_DIR
load_from_file(dir, files, key) ==
    LET found == found_in_cache(dir, files, key)
    IN  [raised |-> swallowed(IF found = "broken" THEN "ValueError" ELSE ""),
         result |-> IF found = "complete" THEN json_load(files[key])
                    ELSE NoneValue]

(***************************************************************************)
(* State.  The module holds one group of variables per specification; a    *)
(* specification leaves the groups of the others at their parked values.   *)
(***************************************************************************)
VARIABLES
    \* SpecFilter: one label vector and one minimum size, and what each of
    \* the two size filters returned for them
    f_labels,     \* the raw label vector (cut of the merge tree)
    f_min,        \* min_size / min_cluster_size
    f_ran,        \* which of the two filters have returned: "hier", "clust"
    f_hier,       \* labels returned by the hierarchical service's filter
    f_clust,      \* (labels, cluster_to_messages) returned by the clustering service's
    \* SpecHier: runs of create_hierarchy on one message list
    h_messages,   \* the message list
    h_svc,        \* the parameters of the HierarchicalClusteringService
    h_now,        \* the wall clock, datetime.now()
    h_ticks,      \* how often the clock has advanced
    h_engine,     \* what the clustering engine returned, per input it has seen
    h_runs,       \* the completed runs: time of the call and what it returned
    \* SpecTopics: create_hierarchy called without messages
    t_n,          \* len(embeddings)
    t_svc,        \* the parameters of the HierarchicalClusteringService
    t_run,        \* what the engine answered and what the call returned
    \* SpecGroup: centroids and representatives of one group of embeddings
    g_embeddings, \* the rows of the group, unit vectors
    g_top_k,      \* top_k of get_representative_messages
    g_centroids,  \* the centroids computed so far, by the code that computed them
    g_repr,       \* what get_representative_messages returned, if it did
    \* SpecScenario: create_hierarchy on the six-message scenario
    s_messages,   \* the six messages
    s_min,        \* min_main_cluster_size
    s_run,        \* what the engine answered and what the call returned
    \* SpecOrch: calls of process_messages and clear_cache
    o_enable_cache, \* config.ENABLE_CACHE
    o_cache,      \* the files of CACHE_DIR: cache key -> file content
    o_completed,  \* the calls that returned an output since the last clear
    o_last,       \* the latest call of process_messages
    \* SpecIds: _ensure_message_ids applied to one message list
    i_input,      \* the list as the caller built it
    i_messages,   \* the list now (the function assigns in place)
    i_calls,      \* the lists the applications of the function returned
    \* SpecCache: the cache files under _save_to_cache, _load_from_cache and
    \* clear_cache, called by two callers at a time
    c_dir,        \* does CACHE_DIR exist?
    c_files,      \* cache key -> the text of the file, block by block
    c_foreign,    \* keys whose file was left by something else than a save
    c_procs,      \* caller -> where it is in the operation it runs
    c_lastsave,   \* key -> output of the save that finished last, if any
    c_settled,    \* key -> output of a save that ran and stayed undisturbed
    c_last,       \* the operation that finished last
    \* SpecSearch: one call of search_messages
    q_request,    \* the arguments of the call
    q_result      \* what the call returned

fvars == <<f_labels, f_min, f_ran, f_hier, f_clust>>

hvars == <<h_messages, h_svc, h_now, h_ticks, h_engine, h_runs>>

ovars == <<o_enable_cache, o_cache, o_completed, o_last>>

tvars == <<t_n, t_svc, t_run>>

gvars == <<g_embeddings, g_top_k, g_centroids, g_repr>>

svars == <<s_messages, s_min, s_run>>

ivars == <<i_input, i_messages, i_calls>>

cvars == <<c_dir, c_files, c_foreign, c_procs, c_lastsave, c_settled, c_last>>

qvars == <<q_request, q_result>>

vars == <<fvars, hvars, ovars, tvars, gvars, svars, ivars, cvars, qvars>>

NoClustResult == [labels |-> <<>>, cluster_to_messages |-> <<>>]

FilterParked ==
    /\ f_labels = <<>>
    /\ f_min = 1
    /\ f_ran = {}
    /\ f_hier = <<>>
    /\ f_clust = NoClustResult

HierParked ==
    /\ h_messages = <<>>
    /\ h_svc = <<>>
    /\ h_now = 0
    /\ h_ticks = 0
    /\ h_engine = {}
    /\ h_runs = <<>>

TopicsParked ==
    /\ t_n = 0
    /\ t_svc = <<>>
    /\ t_run = <<>>

GroupParked ==
    /\ g_embeddings = <<>>
    /\ g_top_k = 1
    /\ g_centroids = {}
    /\ g_repr = <<>>

ScenarioParked ==
    /\ s_messages = <<>>
    /\ s_min = 1
    /\ s_run = <<>>

IdsParked ==
    /\ i_input = <<>>
    /\ i_messages = <<>>
    /\ i_calls = <<>>

CacheParked ==
    /\ c_dir = FALSE
    /\ c_files = <<>>
    /\ c_foreign = {}
    /\ c_procs = <<>>
    /\ c_lastsave = <<>>
    /\ c_settled = <<>>
    /\ c_last = <<>>

SearchParked ==
    /\ q_request = <<>>
    /\ q_result = <<>>

OrchParked ==
    /\ o_enable_cache = FALSE
    /\ o_cache = <<>>
    /\ o_completed = {}
    /\ o_last = <<>>

(***************************************************************************)
(* SpecFilter: the two size filters applied to a label vector.             *)
(***************************************************************************)
InitFilter ==
    /\ f_labels \in SeqsUpTo(0..MaxLabel, MaxItems)
    /\ f_min \in 1..MaxMinSize
    /\ f_ran = {}
    /\ f_hier = <<>>
    /\ f_clust = NoClustResult
    /\ HierParked
    /\ OrchParked
    /\ TopicsParked
    /\ GroupParked
    /\ ScenarioParked
    /\ IdsParked
    /\ CacheParked
    /\ SearchParked

ApplyHierFilter ==
    /\ "hier" \notin f_ran
    /\ f_hier' = H_filter_small_clusters(f_labels, f_min, Len(f_labels))
    /\ f_ran' = f_ran \cup {"hier"}
    /\ UNCHANGED <<f_labels, f_min, f_clust, hvars, ovars, tvars, gvars, svars, ivars, cvars, qvars>>

ApplyClusteringFilter ==
    /\ "clust" \notin f_ran
    /\ f_clust' = C_filter_small_clusters(f_labels,
                      cluster_to_messages_of(f_labels), f_min, Len(f_labels))
    /\ f_ran' = f_ran \cup {"clust"}
    /\ UNCHANGED <<f_labels, f_min, f_hier, hvars, ovars, tvars, gvars, svars, ivars, cvars, qvars>>

NextFilter == ApplyHierFilter \/ ApplyClusteringFilter

SpecFilter == InitFilter /\ [][NextFilter]_vars

(***************************************************************************)
(* SpecHier: create_hierarchy is run on a message list, the wall clock     *)
(* advances, and it is run again on the same list.  The embeddings are     *)
(* fixed and the engine is a function of its input: asked twice about the  *)
(* same conversations it returns the same labels.                          *)
(***************************************************************************)
ChannelChoices == {0, 1}

TimestampChoices ==
    {[kind |-> "naive", t |-> time_gap_threshold],
     [kind |-> "naive", t |-> 2 * time_gap_threshold],
     [kind |-> "aware", t |-> time_gap_threshold],
     [kind |-> "bad", t |-> 0]}

HierMessages == [channel : ChannelChoices, timestamp : TimestampChoices]

SvcChoices == [max_clusters : {1, 2}, min_main_cluster_size : {1, 2}]

ClockStart == 2 * time_gap_threshold + 1

TickSeconds == time_gap_threshold + 1

InitHier ==
    /\ h_messages \in SeqsUpTo(HierMessages, MaxMsgs)
    /\ h_svc \in SvcChoices
    /\ h_now = ClockStart
    /\ h_ticks = 0
    /\ h_engine = {}
    /\ h_runs = <<>>
    /\ FilterParked
    /\ OrchParked
    /\ TopicsParked
    /\ GroupParked
    /\ ScenarioParked
    /\ IdsParked
    /\ CacheParked
    /\ SearchParked

\* the clock advances between the two runs
ClockTick ==
    /\ Len(h_runs) = 1
    /\ h_ticks < MaxTicks
    /\ h_ticks' = h_ticks + 1
    /\ h_now' = h_now + TickSeconds
    /\ UNCHANGED <<h_messages, h_svc, h_engine, h_runs, fvars, ovars, tvars, gvars, svars, ivars, cvars, qvars>>

\* what the engine may return for n conversations: the threshold cut and, when
\* _create_topic_clusters asks for it, the target-count cut
EngineAnswers(n, svc) ==
    IF n < 2
    THEN {<<[raised |-> FALSE, labels |-> <<>>], <<>>>>}
    ELSE UNION {
            {cut} \X (IF TooManyClusters(
                            cluster_level(n, cut, svc.min_main_cluster_size), svc)
                      THEN TargetCuts(n, svc.max_clusters)
                      ELSE {<<>>}) : cut \in ThresholdCuts(n)}

\* the topic labels create_hierarchy can arrive at for n conversations
TopicLabelings ==
    [n \in 0..MaxMsgs, svc \in SvcChoices |->
        {topic_labels_of(n, svc, answer[1], answer[2]) :
            answer \in EngineAnswers(n, svc)}]

\* create_hierarchy(embeddings, message_ids, messages), called at h_now.
\* h_engine remembers the topic labels the engine's answers led to for the
\* conversations it was asked about; it answers the same input the same way.
RunCreateHierarchy ==
    /\ Len(h_runs) < 2
    /\ LET grouping == conversation_groups_of(h_messages, h_now)
           n == Len(grouping.conversations)
       IN  \E topic_labels \in TopicLabelings[n, h_svc] :
              LET asked == [input |-> grouping.conversations,
                            topic_labels |-> topic_labels]
                  hierarchy == hierarchy_for(grouping, topic_labels)
              IN  /\ \A e \in h_engine : e.input = asked.input => e = asked
                  /\ h_engine' = IF hierarchy.raised = "" /\ n >= 2
                                 THEN h_engine \cup {asked}
                                 ELSE h_engine
                  /\ h_runs' = Append(h_runs,
                         [now |-> h_now, hierarchy |-> hierarchy])
    /\ UNCHANGED <<h_messages, h_svc, h_now, h_ticks, fvars, ovars, tvars, gvars, svars, ivars, cvars, qvars>>

NextHier == ClockTick \/ RunCreateHierarchy

SpecHier == InitHier /\ [][NextHier]_vars

(***************************************************************************)
(* SpecTopics: create_hierarchy(embeddings, message_ids) is called without *)
(* messages, so that every message is its own conversation (lines 73-75),  *)
(* and the conversations are clustered into topics.                        *)
(***************************************************************************)
\* the sizes of the inputs the clustering engine is called with: line 108
\* calls _create_topic_clusters only for more than one conversation, and
\* lines 172 and 202 return before the engine for fewer than two
engine_calls_for(n_conversations) ==
    IF n_conversations > 1 THEN {n_conversations} ELSE {}

\* conversation_groups = {i: [i] for i in range(n_messages)}
OwnConversations(n_messages) == [p \in 1..n_messages |-> <<p - 1>>]

InitTopics ==
    /\ t_n \in 0..MaxConvs
    /\ t_svc \in SvcChoices
    /\ t_run = <<>>
    /\ FilterParked
    /\ HierParked
    /\ OrchParked
    /\ GroupParked
    /\ ScenarioParked
    /\ IdsParked
    /\ CacheParked
    /\ SearchParked

\* one call; t_run keeps the engine's threshold cut next to the result
RunWithoutMessages ==
    /\ t_run = <<>>
    /\ \E answer \in EngineAnswers(t_n, t_svc) :
          t_run' = <<[threshold_cut |-> answer[1],
                      engine_calls |-> engine_calls_for(t_n),
                      hierarchy |-> assemble_hierarchy(
                          OwnConversations(t_n),
                          topic_labels_of(t_n, t_svc, answer[1], answer[2]))]>>
    /\ UNCHANGED <<t_n, t_svc, fvars, hvars, ovars, gvars, svars, ivars, cvars, qvars>>

NextTopics == RunWithoutMessages

SpecTopics == InitTopics /\ [][NextTopics]_vars

(***************************************************************************)
(* SpecGroup: the centroid of one group of unit-norm embeddings is taken   *)
(* by each of the three places that compute one, and the representatives   *)
(* of the group are selected with the clustering service's centroid.      *)
(***************************************************************************)
\* cluster_messages: all rows of the matrix
GroupMembers == RangeList(Len(g_embeddings))

InitGroup ==
    /\ g_embeddings \in SeqsUpTo(UnitVectors, MaxRows) \ {<<>>}
    /\ g_top_k \in 1..MaxRows
    /\ g_centroids = {}
    /\ g_repr = <<>>
    /\ FilterParked
    /\ HierParked
    /\ TopicsParked
    /\ OrchParked
    /\ ScenarioParked
    /\ IdsParked
    /\ CacheParked
    /\ SearchParked

\* create_hierarchy, lines 87-89: the centroid of a conversation
ConversationCentroid ==
    /\ \A c \in g_centroids : c.by # "conversation"
    /\ g_centroids' = g_centroids \cup
           {[by |-> "conversation", centroid |-> centroid_of(g_embeddings, GroupMembers)]}
    /\ UNCHANGED <<g_embeddings, g_top_k, g_repr, fvars, hvars, ovars, tvars, svars, ivars, cvars, qvars>>

\* create_hierarchy, lines 137-139: the centroid of a topic
TopicCentroid ==
    /\ \A c \in g_centroids : c.by # "topic"
    /\ g_centroids' = g_centroids \cup
           {[by |-> "topic", centroid |-> centroid_of(g_embeddings, GroupMembers)]}
    /\ UNCHANGED <<g_embeddings, g_top_k, g_repr, fvars, hvars, ovars, tvars, svars, ivars, cvars, qvars>>

\* ClusteringService.compute_cluster_centroids
ComputeClusterCentroids ==
    /\ \A c \in g_centroids : c.by # "cluster"
    /\ g_centroids' = g_centroids \cup
           {[by |-> "cluster", centroid |-> centroid_of(g_embeddings, GroupMembers)]}
    /\ UNCHANGED <<g_embeddings, g_top_k, g_repr, fvars, hvars, ovars, tvars, svars, ivars, cvars, qvars>>

\* ClusteringService.get_representative_messages
GetRepresentatives ==
    /\ g_repr = <<>>
    /\ \E c \in g_centroids :
          /\ c.by = "cluster"
          /\ \E argsort \in ArgSorts(g_embeddings, GroupMembers, c.centroid) :
                g_repr' = <<[centroid |-> c.centroid,
                             result |-> get_representative_messages(
                                            GroupMembers, g_top_k, argsort)]>>
    /\ UNCHANGED <<g_embeddings, g_top_k, g_centroids, fvars, hvars, ovars, tvars, svars, ivars, cvars, qvars>>

NextGroup ==
    \/ ConversationCentroid
    \/ TopicCentroid
    \/ ComputeClusterCentroids
    \/ GetRepresentatives

SpecGroup == InitGroup /\ [][NextGroup]_vars

(***************************************************************************)
(* SpecScenario: six messages, four of channel A (two within a minute, two *)
(* more after a gap of two hours) and two of channel B whose instants lie  *)
(* between those of channel A and whose places in the list lie anywhere    *)
(* among them.  create_hierarchy is run once on the list with a service    *)
(* whose minimum group size is 1 or 4.                                     *)
(***************************************************************************)
ChannelA == 0

ChannelB == 1

\* the instants of the four messages of channel A, in seconds
ATimes ==
    <<0, 60, 60 + 2 * time_gap_threshold, 120 + 2 * time_gap_threshold>>

\* instants between those of channel A: inside the early pair, inside the
\* gap and inside the late pair
BTimes == {30, 30 + time_gap_threshold, 90 + 2 * time_gap_threshold}

ScenarioMessage(channel, t) ==
    [channel |-> channel, timestamp |-> [kind |-> "naive", t |-> t]]

\* the list with the messages of channel B at the places b_places
ScenarioList(b_places, b_first, b_second) ==
    [p \in 1..(Len(ATimes) + 2) |->
        IF p \in b_places
        THEN ScenarioMessage(ChannelB,
                 IF p = SetMin(b_places) THEN b_first ELSE b_second)
        ELSE ScenarioMessage(ChannelA,
                 ATimes[Cardinality((1..p) \ b_places)])]

ScenarioMinSizes == {1, 4}

ScenarioSvc == [max_clusters |-> MAX_CLUSTERS, min_main_cluster_size |-> s_min]

InitScenario ==
    /\ \E b_places \in SUBSET (1..(Len(ATimes) + 2)) :
          /\ Cardinality(b_places) = 2
          /\ \E b_first, b_second \in BTimes :
                s_messages = ScenarioList(b_places, b_first, b_second)
    /\ s_min \in ScenarioMinSizes
    /\ s_run = <<>>
    /\ FilterParked
    /\ HierParked
    /\ TopicsParked
    /\ GroupParked
    /\ OrchParked
    /\ IdsParked
    /\ CacheParked
    /\ SearchParked

\* create_hierarchy(embeddings, message_ids, messages) on the scenario's list
RunScenario ==
    /\ s_run = <<>>
    /\ LET grouping == conversation_groups_of(s_messages, ClockStart)
           n == Len(grouping.conversations)
       IN  \E answer \in EngineAnswers(n, ScenarioSvc) :
              s_run' = <<[threshold_cut |-> answer[1],
                          hierarchy |-> hierarchy_for(grouping,
                              topic_labels_of(n, ScenarioSvc, answer[1], answer[2]))]>>
    /\ UNCHANGED <<s_messages, s_min, fvars, hvars, ovars, tvars, gvars, ivars, cvars, qvars>>

NextScenario == RunScenario

SpecScenario == InitScenario /\ [][NextScenario]_vars

(***************************************************************************)
(* SpecIds: _ensure_message_ids is applied to a message list, and then     *)
(* once more to the same list.  Some messages come with an id.             *)
(***************************************************************************)
GivenIds == {NoneValue, <<"id", "m1">>, <<"id", "m2">>}

IdsMessages ==
    [text : {"a", "b"}, channel : {0}, user : {"u"},
     timestamp : {[kind |-> "naive", t |-> time_gap_threshold]},
     message_id : GivenIds]

InitIds ==
    /\ i_input \in SeqsUpTo(IdsMessages, MaxMsgs)
    /\ i_messages = i_input
    /\ i_calls = <<>>
    /\ FilterParked
    /\ HierParked
    /\ TopicsParked
    /\ GroupParked
    /\ ScenarioParked
    /\ OrchParked
    /\ CacheParked
    /\ SearchParked

\* messages = self._ensure_message_ids(messages)
EnsureMessageIds ==
    /\ Len(i_calls) < 2
    /\ i_messages' = ensure_message_ids(i_messages)
    /\ i_calls' = Append(i_calls, ensure_message_ids(i_messages))
    /\ UNCHANGED <<i_input, fvars, hvars, ovars, tvars, gvars, svars, cvars, qvars>>

NextIds == EnsureMessageIds

SpecIds == InitIds /\ [][NextIds]_vars

(***************************************************************************)
(* SpecSearch: one call of search_messages.  The tags of a message are     *)
(* those of its topic, so that messages of one cluster carry the same tag. *)
(***************************************************************************)
SearchMessage(text, cluster) ==
    [text |-> text, tags |-> <<"tag_" \o cluster>>, cluster_id |-> cluster]

SearchMessages ==
    {SearchMessage(text, cluster) : text \in {"x", "y"}, cluster \in {"c1", "c2"}}

TopKChoices == {0, 1, 2}

SearchRequests ==
    UNION {
        [query : {"x"},
         messages_with_tags : {msgs},
         embeddings : {NoneValue,
                       <<encode_messages([p \in DOMAIN msgs |-> msgs[p].text])>>},
         top_k : TopKChoices,
         filter_tags : {NoneValue, <<<<"tag_c1">>>>},
         filter_clusters : {NoneValue, <<<<"c1">>>>}] :
            msgs \in SeqsUpTo(SearchMessages, MaxRows)}

InitSearch ==
    /\ q_request \in SearchRequests
    /\ q_result = <<>>
    /\ FilterParked
    /\ HierParked
    /\ TopicsParked
    /\ GroupParked
    /\ ScenarioParked
    /\ OrchParked
    /\ IdsParked
    /\ CacheParked

\* the rows np.argsort is applied to in find_similar
SearchRows ==
    IF q_request.embeddings # NoneValue THEN q_request.embeddings[1]
    ELSE encode_messages(
             [p \in DOMAIN filtered_messages_of(q_request.messages_with_tags,
                               q_request.filter_tags, q_request.filter_clusters) |->
                 filtered_messages_of(q_request.messages_with_tags,
                     q_request.filter_tags, q_request.filter_clusters)[p].text])

\* orchestrator.search_messages(query, messages_with_tags, embeddings, top_k,
\* filter_tags, filter_clusters)
SearchMessagesCall ==
    /\ q_result = <<>>
    /\ \E argsort \in ArgSorts(SearchRows, RangeList(Len(SearchRows)),
                              [vec |-> encode(q_request.query), scale_sq |-> 1]) :
          q_result' = <<search_messages(q_request, argsort)>>
    /\ UNCHANGED <<q_request, fvars, hvars, ovars, tvars, gvars, svars, ivars, cvars>>

NextSearch == SearchMessagesCall

SpecSearch == InitSearch /\ [][NextSearch]_vars

(***************************************************************************)
(* SpecCache: the cache methods on the files of CACHE_DIR.  Two callers    *)
(* share the directory (two server processes started on the same           *)
(* checkout); each runs its handlers one at a time.  A save is an open     *)
(* followed by one write per block, the last one at the close; a load and  *)
(* each step of a clear are single steps.  c_lastsave[k] holds the output  *)
(* of the save of k that finished last, c_settled[k] the output of a save  *)
(* of k that finished with no other open, write or clear of k since its    *)
(* own open.                                                               *)
(***************************************************************************)
FileKeys == {"k1", "k2"}

CacheCallers == {1, 2}

\* the outputs the callers save
SavedOutputs ==
    {[label |-> "x", centroid |-> "1.0"], [label |-> "y", centroid |-> "nan"]}

NoFile == <<>>

IdleProc ==
    [pc |-> "idle", key |-> "", output |-> <<>>, next |-> 0,
     attached |-> FALSE, disturbed |-> FALSE]

NoOperation ==
    [op |-> "none", key |-> "", failed |-> FALSE, raised |-> "",
     found |-> "", foreign |-> FALSE, result |-> <<>>, settled |-> <<>>]

\* files left in CACHE_DIR by other programs or earlier versions: a text
\* cut short, and a document of another schema
ForeignTexts == {<<"{", "x">>, <<"{", "z", "1.0", "}">>}

InitCache ==
    /\ c_dir = TRUE
    /\ \/ /\ c_files = [k \in FileKeys |-> NoFile]
          /\ c_foreign = {}
       \/ /\ \E o \in SavedOutputs :
                c_files = [k \in FileKeys |->
                              IF k = "k1" THEN <<json_dump(o)>> ELSE NoFile]
          /\ c_foreign = {}
       \/ /\ \E text \in ForeignTexts :
                c_files = [k \in FileKeys |->
                              IF k = "k1" THEN <<text>> ELSE NoFile]
          /\ c_foreign = {"k1"}
    /\ c_procs = [p \in CacheCallers |-> IdleProc]
    /\ c_lastsave = [k \in FileKeys |-> <<>>]
    /\ c_settled = [k \in FileKeys |-> <<>>]
    /\ c_last = NoOperation
    /\ FilterParked
    /\ HierParked
    /\ TopicsParked
    /\ GroupParked
    /\ ScenarioParked
    /\ OrchParked
    /\ IdsParked
    /\ SearchParked

\* the other callers that have the file of the key open see it change
Disturb(procs, p, key) ==
    [q \in CacheCallers |->
        IF q # p /\ procs[q].pc = "saving" /\ procs[q].key = key
        THEN [procs[q] EXCEPT !.disturbed = TRUE]
        ELSE procs[q]]

\* with open(cache_path, 'w', ...) as f: the file is created or emptied
SaveOpen(p, key, output) ==
    /\ c_procs[p].pc = "idle"
    /\ c_dir
    /\ c_files' = [c_files EXCEPT ![key] = <<(<<>>)>>]
    /\ c_foreign' = c_foreign \ {key}
    /\ c_procs' = [Disturb(c_procs, p, key) EXCEPT ![p] =
                      [pc |-> "saving", key |-> key, output |-> <<output>>,
                       next |-> 1, attached |-> TRUE, disturbed |-> FALSE]]
    /\ c_settled' = [c_settled EXCEPT ![key] = <<>>]
    /\ UNCHANGED <<c_dir, c_lastsave, c_last>>
    /\ UNCHANGED <<fvars, hvars, ovars, tvars, gvars, svars, ivars, qvars>>

\* open() raises FileNotFoundError while CACHE_DIR is missing; the except
\* clause of _save_to_cache logs it
SaveOpenFails(p, key, output) ==
    /\ c_procs[p].pc = "idle"
    /\ ~c_dir
    /\ c_last' = [NoOperation EXCEPT !.op = "save", !.key = key,
                     !.failed = TRUE, !.raised = swallowed("OSError")]
    /\ UNCHANGED <<c_dir, c_files, c_foreign, c_procs, c_lastsave, c_settled>>
    /\ UNCHANGED <<fvars, hvars, ovars, tvars, gvars, svars, ivars, qvars>>

\* json.dump(...): the next block reaches the file at the writer's own
\* position; after the last block the file is closed and the save returns
SaveWrite(p) ==
    LET me == c_procs[p]
        text == json_dump(me.output[1])
        last == me.next = NumBlocks(text)
    IN  /\ me.pc = "saving"
        /\ c_files' =
              IF me.attached
              THEN [c_files EXCEPT ![me.key] =
                       <<WriteAt(c_files[me.key][1], BlockStart(me.next),
                                 BlockOf(text, me.next))>>]
              ELSE c_files
        /\ c_procs' = [Disturb(c_procs, p, me.key) EXCEPT ![p] =
                          IF last THEN IdleProc
                          ELSE [me EXCEPT !.next = me.next + 1]]
        /\ c_lastsave' =
              IF last /\ me.attached
              THEN [c_lastsave EXCEPT ![me.key] = me.output]
              ELSE c_lastsave
        /\ c_settled' =
              IF ~me.attached THEN c_settled
              ELSE [c_settled EXCEPT ![me.key] =
                       IF last /\ ~me.disturbed THEN me.output ELSE <<>>]
        /\ c_last' =
              IF last
              THEN [NoOperation EXCEPT !.op = "save", !.key = me.key,
                       !.result = me.output]
              ELSE c_last
        /\ UNCHANGED <<c_dir, c_foreign>>
        /\ UNCHANGED <<fvars, hvars, ovars, tvars, gvars, svars, ivars, qvars>>

\* a write raises OSError (disk full): the with statement closes the file
\* with what reached it, the except clause of _save_to_cache logs the error
SaveWriteFails(p) ==
    LET me == c_procs[p]
    IN  /\ me.pc = "saving"
        /\ c_procs' = [c_procs EXCEPT ![p] = IdleProc]
        /\ c_lastsave' =
              IF me.attached THEN [c_lastsave EXCEPT ![me.key] = <<>>]
              ELSE c_lastsave
        /\ c_last' = [NoOperation EXCEPT !.op = "save", !.key = me.key,
                         !.failed = TRUE, !.raised = swallowed("OSError")]
        /\ UNCHANGED <<c_dir, c_files, c_foreign, c_settled>>
        /\ UNCHANGED <<fvars, hvars, ovars, tvars, gvars, svars, ivars, qvars>>

\* cached_result = self._load_from_cache(cache_key)
Load(p, key) ==
    LET files == [k \in {k \in FileKeys : c_files[k] # NoFile} |->
                     c_files[k][1]]
        call == load_from_file(c_dir, files, key)
    IN  /\ c_procs[p].pc = "idle"
        /\ c_last' = [op |-> "load", key |-> key, failed |-> FALSE,
                      raised |-> call.raised,
                      found |-> IF ~c_dir \/ c_files[key] = NoFile
                                THEN "missing"
                                ELSE IF c_files[key][1] \in
                                          {json_dump(o) : o \in CacheOutputs}
                                THEN "complete" ELSE "broken",
                      foreign |-> key \in c_foreign,
                      result |-> call.result,
                      settled |-> c_settled[key]]
        /\ UNCHANGED <<c_dir, c_files, c_foreign, c_procs, c_lastsave, c_settled>>
        /\ UNCHANGED <<fvars, hvars, ovars, tvars, gvars, svars, ivars, qvars>>

\* clear_cache: shutil.rmtree(CACHE_DIR) removes the files and the
\* directory; a file that a writer holds open lives on without a name
ClearRmtree(p) ==
    /\ c_procs[p].pc = "idle"
    /\ c_dir
    /\ c_dir' = FALSE
    /\ c_files' = [k \in FileKeys |-> NoFile]
    /\ c_foreign' = {}
    /\ c_procs' = [q \in CacheCallers |->
                      IF q = p THEN [IdleProc EXCEPT !.pc = "clearing"]
                      ELSE IF c_procs[q].pc = "saving"
                      THEN [c_procs[q] EXCEPT !.attached = FALSE,
                                              !.disturbed = TRUE]
                      ELSE c_procs[q]]
    /\ c_lastsave' = [k \in FileKeys |-> <<>>]
    /\ c_settled' = [k \in FileKeys |-> <<>>]
    /\ UNCHANGED c_last
    /\ UNCHANGED <<fvars, hvars, ovars, tvars, gvars, svars, ivars, qvars>>

\* clear_cache: os.makedirs(CACHE_DIR, exist_ok=True)
ClearMakedirs(p) ==
    /\ c_procs[p].pc = "clearing"
    /\ c_dir' = TRUE
    /\ c_procs' = [c_procs EXCEPT ![p] = IdleProc]
    /\ c_last' = [NoOperation EXCEPT !.op = "clear"]
    /\ UNCHANGED <<c_files, c_foreign, c_lastsave, c_settled>>
    /\ UNCHANGED <<fvars, hvars, ovars, tvars, gvars, svars, ivars, qvars>>

NextCache ==
    \E p \in CacheCallers :
        \/ \E key \in FileKeys, output \in SavedOutputs :
              \/ SaveOpen(p, key, output)
              \/ SaveOpenFails(p, key, output)
        \/ SaveWrite(p)
        \/ SaveWriteFails(p)
        \/ \E key \in FileKeys : Load(p, key)
        \/ ClearRmtree(p)
        \/ ClearMakedirs(p)

SpecCache == InitCache /\ [][NextCache]_vars

(***************************************************************************)
(* SpecOrch: the orchestrator serves requests one after the other (the     *)
(* handlers of main.py are coroutines that call it without awaiting), and  *)
(* the cache is cleared now and then.  The cache directory outlives the    *)
(* process (os.makedirs(CACHE_DIR, exist_ok=True)), so the cache may hold   *)
(* a file when the orchestrator is constructed.                            *)
(***************************************************************************)
OrchMessage(text, channel, seconds) ==
    [text |-> text, channel |-> channel, user |-> "u",
     timestamp |-> [kind |-> "naive", t |-> seconds], message_id |-> NoneValue]

MessageLists ==
    {<<>>,
     <<OrchMessage("ab", 0, time_gap_threshold)>>,
     <<OrchMessage("a", 0, time_gap_threshold),
       OrchMessage("b", 0, 2 * time_gap_threshold)>>,
     <<OrchMessage("a", 0, time_gap_threshold),
       OrchMessage("b", 1, time_gap_threshold)>>}

ParamChoices ==
    {[distance_threshold |-> NoneValue, min_cluster_size |-> NoneValue],
     [distance_threshold |-> <<5>>, min_cluster_size |-> <<2>>]}

Requests ==
    {[messages |-> m, force_recluster |-> f,
      distance_threshold |-> p.distance_threshold,
      min_cluster_size |-> p.min_cluster_size] :
        m \in MessageLists, f \in BOOLEAN, p \in ParamChoices}

CacheKeys ==
    {generate_cache_key(r.messages, r.distance_threshold, r.min_cluster_size) :
        r \in Requests}

\* an output stored by an earlier process
EarlierOutput ==
    [messages |-> <<>>, clusters |-> <<>>,
     metadata |-> [total_messages |-> 0, total_clusters |-> 0]]

InitialCaches ==
    {EmptyCache}
        \cup {save_to_cache(EmptyCache, k, EarlierOutput) : k \in CacheKeys}
        \cup {[k \in {j} |-> CorruptFile] : j \in CacheKeys}

\* what the outside world may answer during a call on the given messages
Environments ==
    [messages \in MessageLists |->
        LET grouping == conversation_groups_of(ensure_message_ids(messages),
                                               ClockStart)
        IN  {[embed_ok |-> ok, now |-> ClockStart,
              threshold_cut |-> answer[1], target_cut |-> answer[2]] :
                ok \in BOOLEAN,
                answer \in EngineAnswers(Len(grouping.conversations), OrchSvc)}]

\* o_last before the first call
NoCall == [outcome |-> "none"]

InitOrch ==
    /\ o_enable_cache \in BOOLEAN
    /\ o_cache \in InitialCaches
    /\ o_completed = {}
    /\ o_last = NoCall
    /\ FilterParked
    /\ HierParked
    /\ TopicsParked
    /\ GroupParked
    /\ ScenarioParked
    /\ IdsParked
    /\ CacheParked
    /\ SearchParked

\* one call of process_messages.  o_last keeps the request, what the call did,
\* the parameters it clustered with, whether it changed the cache, and the
\* calls that had returned an output
\* since the last clear when it began.
ProcessMessages ==
    /\ \E request \in Requests :
         \E env \in Environments[request.messages] :
            LET call == process_messages(request, o_cache, o_enable_cache, env)
            IN  /\ o_cache' = call.cache
                /\ o_last' = [request |-> request,
                              outcome |-> call.outcome,
                              result |-> call.result,
                              steps |-> call.steps,
                              params |-> call.params,
                              wrote |-> (call.cache # o_cache),
                              completed_before |-> o_completed]
                /\ o_completed' =
                       IF call.outcome = "returned"
                       THEN o_completed \cup
                                {[request |-> request, result |-> call.result]}
                       ELSE o_completed
    /\ UNCHANGED <<o_enable_cache, fvars, hvars, tvars, gvars, svars, ivars, cvars, qvars>>

\* POST /cache/clear
ClearCache ==
    /\ o_cache' = clear_cache(o_cache)
    /\ o_completed' = {}
    /\ UNCHANGED <<o_enable_cache, o_last, fvars, hvars, tvars, gvars, svars, ivars, cvars, qvars>>

NextOrch == ProcessMessages \/ ClearCache

SpecOrch == InitOrch /\ [][NextOrch]_vars

(***************************************************************************)
(* Properties of the two size filters (checked under SpecFilter).          *)
(***************************************************************************)
\* the groups of the input labelling that meet the minimum size
SurvivingGroups ==
    {l \in Range(f_labels) :
        Cardinality({p \in DOMAIN f_labels : f_labels[p] = l}) >= f_min}

DissolvedGroups == Range(f_labels) \ SurvivingGroups

\* number of groups after filtering: the surviving ones, or the single catch-all
NumGroupsAfter ==
    IF SurvivingGroups = {} THEN 1 ELSE Cardinality(SurvivingGroups)

\* how often index i is listed in the lists of a cluster_to_messages map
Occurrences(c2m, i) ==
    Cardinality({<<c, p>> \in UNION {{c} \X DOMAIN c2m[c] : c \in DOMAIN c2m} :
                    c2m[c][p] = i})

\* C3: minimum-size enforcement never discards an item: both filters return a
\* label vector of the input's length in which every item carries the label of
\* a group that exists after filtering (never -1), and the lists of the
\* clustering service's cluster_to_messages contain every index exactly once.
C3_NeverDiscards ==
    /\ "hier" \in f_ran =>
          /\ Len(f_hier) = Len(f_labels)
          /\ \A p \in DOMAIN f_hier : f_hier[p] \in 0..(NumGroupsAfter - 1)
    /\ "clust" \in f_ran =>
          /\ Len(f_clust.labels) = Len(f_labels)
          /\ \A p \in DOMAIN f_clust.labels :
                 f_clust.labels[p] \in 0..(NumGroupsAfter - 1)
          /\ \A i \in 0..(Len(f_labels) - 1) :
                 Occurrences(f_clust.cluster_to_messages, i) = 1

\* C3 witness: both filters have run on a labelling with a surviving group and
\* a dissolved one.
C3_Witness ==
    /\ f_ran = {"hier", "clust"}
    /\ SurvivingGroups # {}
    /\ DissolvedGroups # {}

\* the reassignment rule, for one returned label vector
ReassignedToSmallest(out) ==
    /\ \A p \in DOMAIN f_labels :
          (f_labels[p] \in DissolvedGroups \/ f_labels[p] = SetMin(SurvivingGroups))
             => out[p] = 0
    /\ \A p, q \in DOMAIN f_labels :
          (f_labels[p] \in SurvivingGroups /\ f_labels[q] \in SurvivingGroups)
             => ((out[p] = out[q]) <=> (f_labels[p] = f_labels[q]))

\* C10: when at least one group meets the minimum size, every member of every
\* smaller group gets new label 0, the label of the surviving group with the
\* smallest original label, and surviving groups are neither merged nor split.
C10_ReassignToSmallestSurvivor ==
    SurvivingGroups # {} =>
        /\ "hier" \in f_ran => ReassignedToSmallest(f_hier)
        /\ "clust" \in f_ran => ReassignedToSmallest(f_clust.labels)

\* C10 witness: two surviving groups and a dissolved one, both filters have run.
C10_Witness ==
    /\ f_ran = {"hier", "clust"}
    /\ Cardinality(SurvivingGroups) >= 2
    /\ DissolvedGroups # {}

\* the renumbering rule for one returned label vector, K surviving groups
RenumberedContiguously(out, K) ==
    /\ Range(out) = 0..(K - 1)
    /\ \A p, q \in DOMAIN f_labels :
          (f_labels[p] \in SurvivingGroups /\ f_labels[q] \in SurvivingGroups
             /\ f_labels[p] < f_labels[q]) => out[p] < out[q]

\* C11 as stated: the returned labels are exactly 0..K-1, K the number of
\* surviving groups, and old label -> new label is strictly increasing on the
\* surviving groups.
C11_Renumbering ==
    /\ "hier" \in f_ran =>
          RenumberedContiguously(f_hier, Cardinality(SurvivingGroups))
    /\ "clust" \in f_ran =>
          RenumberedContiguously(f_clust.labels, Cardinality(SurvivingGroups))

\* C11 amended: the returned labels are exactly 0..K-1 for the K groups that
\* exist after filtering (the surviving ones or, when none survives and the
\* input is not empty, the single catch-all group 0), and old label -> new
\* label is strictly increasing on the surviving groups.
C11_RenumberingOfGroupsAfter ==
    LET K == IF f_labels = <<>> THEN 0 ELSE NumGroupsAfter
    IN  /\ "hier" \in f_ran => RenumberedContiguously(f_hier, K)
        /\ "clust" \in f_ran => RenumberedContiguously(f_clust.labels, K)

\* C11 witness: both filters have run on a labelling whose surviving groups
\* 0 and 2 are separated by the dissolved group 1, so that 2 is renumbered.
C11_Witness ==
    /\ f_ran = {"hier", "clust"}
    /\ SurvivingGroups = {0, 2}
    /\ DissolvedGroups = {1}

\* C12: degenerate clustering: when no group of the input has min_size members,
\* both filters return the all-zero vector of the input's length (and the
\* clustering service the single list 0..n-1 under label 0); no error is raised.
C12_DegenerateAllZero ==
    SurvivingGroups = {} =>
        /\ "hier" \in f_ran =>
              /\ Len(f_hier) = Len(f_labels)
              /\ \A p \in DOMAIN f_hier : f_hier[p] = 0
        /\ "clust" \in f_ran =>
              /\ Len(f_clust.labels) = Len(f_labels)
              /\ \A p \in DOMAIN f_clust.labels : f_clust.labels[p] = 0
              /\ DOMAIN f_clust.cluster_to_messages = {0}
              /\ f_clust.cluster_to_messages[0]
                     = [p \in 1..Len(f_labels) |-> p - 1]

\* C12 witness: both filters have run on several groups all below the minimum.
C12_Witness ==
    /\ f_ran = {"hier", "clust"}
    /\ SurvivingGroups = {}
    /\ Cardinality(Range(f_labels)) >= 2
    /\ Len(f_labels) >= 3

\* C30: the two minimum-size filters are equivalent: for every label vector
\* and minimum size both return the same label vector, and the
\* cluster_to_messages map of the clustering service's filter lists index i
\* under label c exactly when the returned label of i is c.
C30_FiltersEquivalent ==
    f_ran = {"hier", "clust"} =>
        /\ f_clust.labels = f_hier
        /\ Range(f_clust.labels) \subseteq DOMAIN f_clust.cluster_to_messages
        /\ \A c \in DOMAIN f_clust.cluster_to_messages :
              Range(f_clust.cluster_to_messages[c])
                 = {p - 1 : p \in {q \in DOMAIN f_clust.labels :
                                     f_clust.labels[q] = c}}

\* C30 witness: both filters ran on a vector with two surviving groups and a
\* dissolved group whose label lies between theirs
C30_Witness ==
    /\ f_ran = {"hier", "clust"}
    /\ Cardinality(SurvivingGroups) >= 2
    /\ \E d \in DissolvedGroups :
          SetMin(SurvivingGroups) < d /\ d < SetMax(SurvivingGroups)

(***************************************************************************)
(* Properties of create_hierarchy (checked under SpecHier).                *)
(***************************************************************************)
\* the runs that returned a hierarchy
ReturnedRuns == {r \in DOMAIN h_runs : h_runs[r].hierarchy.raised = ""}

NumMessages == Len(h_messages)

\* how often message index i is listed by the groups of a level
ListedIn(groups, i) ==
    Cardinality({<<g, p>> \in UNION {{g} \X DOMAIN groups[g].message_indices :
                                        g \in DOMAIN groups} :
                    groups[g].message_indices[p] = i})

RECURSIVE SumSizes(_)
SumSizes(groups) ==
    IF groups = <<>> THEN 0
    ELSE SumSizes(SubSeq(groups, 1, Len(groups) - 1))
            + Len(groups[Len(groups)].message_indices)

\* C1: coverage: in the hierarchy returned for a non-empty list of N messages
\* every index 0..N-1 is listed by exactly one conversation and by exactly one
\* topic, and the conversation sizes sum to N.
C1_Coverage ==
    \A r \in ReturnedRuns :
        NumMessages >= 1 =>
            LET hier == h_runs[r].hierarchy
            IN  /\ \A i \in 0..(NumMessages - 1) :
                      /\ ListedIn(hier.sub_clusters, i) = 1
                      /\ ListedIn(hier.main_clusters, i) = 1
                /\ SumSizes(hier.sub_clusters) = NumMessages

\* C1 witness: a returned hierarchy of three messages with several
\* conversations and several topics.
C1_Witness ==
    \E r \in ReturnedRuns :
        /\ NumMessages = 3
        /\ Len(h_runs[r].hierarchy.sub_clusters) >= 2
        /\ Len(h_runs[r].hierarchy.main_clusters) >= 2

\* C2: min-size invariant: in every returned hierarchy every conversation has
\* at least min_sub_cluster_size messages and every topic at least
\* min_main_cluster_size conversations, unless the whole corpus is smaller
\* than the minimum, and then there is exactly one group.
C2_MinSizeInvariant ==
    \A r \in ReturnedRuns :
        LET hier == h_runs[r].hierarchy
            convs == hier.sub_clusters
            topics == hier.main_clusters
        IN  /\ IF NumMessages < min_sub_cluster_size
               THEN Len(convs) = 1
               ELSE \A c \in DOMAIN convs :
                       Len(convs[c].message_indices) >= min_sub_cluster_size
            /\ IF Len(convs) < h_svc.min_main_cluster_size
               THEN Len(topics) = 1
               ELSE \A t \in DOMAIN topics :
                       Len(topics[t].child_ids) >= h_svc.min_main_cluster_size

\* the parsed timestamp (in seconds) the run r used for message index i
EffectiveTime(r, i) ==
    ParseTimestamp(h_messages[i + 1].timestamp, h_runs[r].now).t

ChannelOf(i) == h_messages[i + 1].channel

\* the conversation (position in sub_clusters) that lists message index i
ConversationOf(r, i) ==
    CHOOSE c \in DOMAIN h_runs[r].hierarchy.sub_clusters :
        i \in Range(h_runs[r].hierarchy.sub_clusters[c].message_indices)

\* the message indices in the order in which the conversations of run r list them
SortedOrder(r) ==
    LET convs == h_runs[r].hierarchy.sub_clusters
    IN  ConcatAll([c \in DOMAIN convs |-> convs[c].message_indices])

\* C4: conversation grouping rule: the conversations list the messages in the
\* order of a stable sort by (channel, timestamp); two messages adjacent in
\* that order are in the same conversation iff they have the same channel and
\* the later timestamp is at most 3600 s after the earlier one.
C4_GroupingRule ==
    \A r \in ReturnedRuns :
        NumMessages >= 1 =>
            LET order == SortedOrder(r)
            IN  /\ Len(order) = NumMessages
                /\ Range(order) = 0..(NumMessages - 1)
                /\ \A p \in 1..(Len(order) - 1) :
                      LET a == order[p]
                          b == order[p + 1]
                      IN  /\ \/ ChannelOf(a) < ChannelOf(b)
                             \/ /\ ChannelOf(a) = ChannelOf(b)
                                /\ EffectiveTime(r, a) < EffectiveTime(r, b)
                             \/ /\ ChannelOf(a) = ChannelOf(b)
                                /\ EffectiveTime(r, a) = EffectiveTime(r, b)
                                /\ a < b
                          /\ (ConversationOf(r, a) = ConversationOf(r, b))
                                <=> /\ ChannelOf(a) = ChannelOf(b)
                                    /\ EffectiveTime(r, b) - EffectiveTime(r, a)
                                          <= 3600

\* C4 witness: a grouping in which a gap of exactly 3600 s extended a
\* conversation and a larger gap in the same channel started a new one.
C4_Witness ==
    \E r \in ReturnedRuns :
        LET order == SortedOrder(r)
        IN  /\ \E p \in 1..(Len(order) - 1) :
                  /\ ChannelOf(order[p]) = ChannelOf(order[p + 1])
                  /\ EffectiveTime(r, order[p + 1]) - EffectiveTime(r, order[p]) = 3600
                  /\ ConversationOf(r, order[p]) = ConversationOf(r, order[p + 1])
            /\ \E p \in 1..(Len(order) - 1) :
                  /\ ChannelOf(order[p]) = ChannelOf(order[p + 1])
                  /\ EffectiveTime(r, order[p + 1]) - EffectiveTime(r, order[p]) > 3600
                  /\ ConversationOf(r, order[p]) # ConversationOf(r, order[p + 1])

\* C8: empty or single-message input never raises: create_hierarchy called with
\* zero messages or one message returns a result with exactly one group.
C8_TrivialInputNeverRaises ==
    \A r \in DOMAIN h_runs :
        NumMessages <= 1 =>
            /\ h_runs[r].hierarchy.raised = ""
            /\ Len(h_runs[r].hierarchy.main_clusters) = 1

\* C9: determinism: two runs of create_hierarchy on the same messages,
\* embeddings and parameters give the same conversations, the same ids and
\* the same assignment of conversations to topics, whenever they are executed.
C9_Determinism ==
    Len(h_runs) = 2 => h_runs[1].hierarchy = h_runs[2].hierarchy

\* the message indices of the conversation with the given id
MessagesOfConv(hier, conv_id) ==
    LET c == CHOOSE c \in DOMAIN hier.sub_clusters : hier.sub_clusters[c].id = conv_id
    IN  hier.sub_clusters[c].message_indices

\* C15: parent/child consistency: in every returned hierarchy a conversation
\* has parent_id = t.id iff its id is among t.child_ids, every conversation has
\* exactly one parent topic, every topic has a child, and a topic's
\* message_indices are the concatenation of its children's, in child order.
C15_ParentChildConsistency ==
    \A r \in ReturnedRuns :
        LET hier == h_runs[r].hierarchy
            sub == hier.sub_clusters
            main == hier.main_clusters
        IN  /\ \A c \in DOMAIN sub : \A t \in DOMAIN main :
                   (sub[c].parent_id = main[t].id)
                       <=> (sub[c].id \in Range(main[t].child_ids))
            /\ \A c \in DOMAIN sub :
                   Cardinality({t \in DOMAIN main :
                                   sub[c].parent_id = main[t].id}) = 1
            /\ \A t \in DOMAIN main :
                   /\ main[t].child_ids # <<>>
                   /\ \A k \in DOMAIN main[t].child_ids :
                          \E c \in DOMAIN sub : sub[c].id = main[t].child_ids[k]
                   /\ main[t].message_indices =
                          ConcatAll([k \in DOMAIN main[t].child_ids |->
                                        MessagesOfConv(hier, main[t].child_ids[k])])

\* C15 witness: a returned hierarchy with two topics, one of them with two
\* conversations.
C15_Witness ==
    \E r \in ReturnedRuns :
        /\ Len(h_runs[r].hierarchy.main_clusters) = 2
        /\ \E t \in DOMAIN h_runs[r].hierarchy.main_clusters :
               Len(h_runs[r].hierarchy.main_clusters[t].child_ids) = 2

\* C16: the conversation grouper never raises: for every non-empty message
\* list, whatever mix of timestamps that parse (with or without a UTC offset)
\* and timestamps that are empty or unparsable, _group_by_conversation returns
\* a grouping.
C16_GrouperNeverRaises ==
    \A r \in DOMAIN h_runs :
        h_messages # <<>> =>
            group_by_conversation(h_messages, h_runs[r].now).raised = ""

(***************************************************************************)
(* Properties of the topic level (checked under SpecTopics).               *)
(***************************************************************************)
TopicsReturned == t_run # <<>> /\ t_run[1].hierarchy.raised = ""

NumTopics == Len(t_run[1].hierarchy.main_clusters)

\* the number of groups _cluster_level made of the engine's threshold cut
\* (the cut followed by the size filter)
LevelGroups ==
    Cardinality(Range(cluster_level(t_n, t_run[1].threshold_cut,
                                    t_svc.min_main_cluster_size)))

C14_ShortCircuit ==
    t_run # <<>> =>
        /\ \A k \in t_run[1].engine_calls : k >= 2
        /\ t_n <= 1 =>
              /\ t_run[1].hierarchy.raised = ""
              /\ Len(t_run[1].hierarchy.main_clusters) = 1
              /\ t_run[1].hierarchy.main_clusters[1].id = TopicId(0)
              /\ t_run[1].hierarchy.main_clusters[1].child_ids
                     = [p \in 1..t_n |-> ConvId(p - 1)]

(***************************************************************************)
(* Properties of centroids and representatives (checked under SpecGroup).  *)
(***************************************************************************)
\* the squared norm of vec / sqrt(scale_sq) is 1
HasNormOne(x) == ~IsNaN(x) /\ Dot(x.vec, x.vec) = x.scale_sq

\* C17: centroid normalization: every conversation centroid, topic centroid
\* and cluster centroid of a group of unit-norm embeddings has norm 1.
C17_CentroidsUnitNorm ==
    \A c \in g_centroids : HasNormOne(c.centroid)

\* C18: representative selection: a group of at most top_k members is
\* returned unchanged; otherwise exactly top_k distinct members with the
\* highest similarity to the centroid are returned, by decreasing similarity,
\* ties broken by original index order (the earlier member comes first and is
\* preferred for inclusion).
C18_RepresentativeSelection ==
    \A r \in Range(g_repr) :
        LET similarity(m) == Dot(g_embeddings[m + 1], r.centroid.vec)
            Precedes(a, b) ==
                \/ similarity(a) > similarity(b)
                \/ similarity(a) = similarity(b) /\ a < b
        IN  IF Len(GroupMembers) <= g_top_k
            THEN r.result = GroupMembers
            ELSE /\ Len(r.result) = g_top_k
                 /\ Range(r.result) \subseteq Range(GroupMembers)
                 /\ \A p, q \in DOMAIN r.result :
                       p < q => Precedes(r.result[p], r.result[q])
                 /\ \A m \in Range(GroupMembers) \ Range(r.result) :
                       \A x \in Range(r.result) : Precedes(x, m)

(***************************************************************************)
(* Properties of the six-message scenario (checked under SpecScenario).    *)
(***************************************************************************)
ScenarioIndices(channel, from, to) ==
    {p - 1 : p \in {q \in DOMAIN s_messages :
                      /\ s_messages[q].channel = channel
                      /\ s_messages[q].timestamp.t >= from
                      /\ s_messages[q].timestamp.t <= to}}

AEarly == ScenarioIndices(ChannelA, ATimes[1], ATimes[2])

ALate == ScenarioIndices(ChannelA, ATimes[3], ATimes[4])

AllOfB == ScenarioIndices(ChannelB, 0, ATimes[4])

\* the two messages of channel B are at most time_gap_threshold apart
BWithinGap ==
    \A p, q \in DOMAIN s_messages :
        s_messages[p].channel = ChannelB /\ s_messages[q].channel = ChannelB
            => s_messages[p].timestamp.t - s_messages[q].timestamp.t
                  <= time_gap_threshold

\* the groups of the engine's threshold cut, before the size filter
NumCutGroups(threshold_cut) ==
    IF threshold_cut.raised THEN 1 ELSE Cardinality(Range(threshold_cut.labels))

\* the outcome the scenario expects of a run
ScenarioExpectation(r) ==
    /\ r.hierarchy.raised = ""
    /\ Len(r.hierarchy.sub_clusters) = 3
    /\ {Range(c.message_indices) : c \in Range(r.hierarchy.sub_clusters)}
          = {AEarly, ALate, AllOfB}
    /\ s_min = 1 =>
          Len(r.hierarchy.main_clusters) = NumCutGroups(r.threshold_cut)
    /\ s_min = 4 =>
          /\ Len(r.hierarchy.main_clusters) = 1
          /\ Len(r.hierarchy.main_clusters[1].child_ids) = 3
          /\ Range(r.hierarchy.main_clusters[1].message_indices)
                = AEarly \cup ALate \cup AllOfB

ContentId(p) ==
    <<"msg_", [text |-> i_input[p].text, user |-> i_input[p].user,
               timestamp |-> i_input[p].timestamp, i |-> p - 1]>>

\* what the claim says of the list out returned for the input
IdsAssigned(out) ==
    /\ Len(out) = Len(i_input)
    /\ \A p \in DOMAIN i_input :
          /\ out[p].text = i_input[p].text
          /\ out[p].channel = i_input[p].channel
          /\ out[p].user = i_input[p].user
          /\ out[p].timestamp = i_input[p].timestamp
          /\ out[p].message_id =
                IF i_input[p].message_id = NoneValue THEN ContentId(p)
                ELSE i_input[p].message_id

IdsDistinct(out) ==
    /\ \A p \in DOMAIN out : out[p].message_id # NoneValue
    /\ \A p, q \in DOMAIN out :
          p # q => out[p].message_id # out[q].message_id

\* the part of C25 without the distinctness of the ids: assignment, frame and
\* idempotence
IdsAssignedOnce ==
    /\ \A c \in DOMAIN i_calls : IdsAssigned(i_calls[c])
    /\ i_calls # <<>> => i_messages = i_calls[Len(i_calls)]
    /\ Len(i_calls) = 2 => i_calls[2] = i_calls[1]

\* C25: message ID assignment: a message without message_id gets the id made
\* of its text, user, timestamp and index, a message_id that is present and
\* every other field and the order stay, a second application changes
\* nothing, and afterwards all ids are non-empty and pairwise distinct.
C25_MessageIdAssignment ==
    /\ IdsAssignedOnce
    /\ \A c \in DOMAIN i_calls : IdsDistinct(i_calls[c])

(***************************************************************************)
(* Properties of search_messages (checked under SpecSearch).               *)
(***************************************************************************)
\* the message passes the filters of the request
PassesFilters(msg) ==
    /\ q_request.filter_tags # NoneValue =>
          \E t \in Range(q_request.filter_tags[1]) : t \in Range(msg.tags)
    /\ q_request.filter_clusters # NoneValue =>
          msg.cluster_id \in Range(q_request.filter_clusters[1])

\* C28: search: for every query, top_k >= 0 and filters, with or without
\* embeddings of the full message list, search_messages returns at most top_k
\* pairs in non-increasing score order, every returned message passes the
\* filters and is paired with the cosine similarity of the query embedding
\* with its own embedding; the result is empty when no message passes.
C28_Search ==
    \A r \in Range(q_result) :
        /\ r.raised = ""
        /\ Len(r.results) <= q_request.top_k
        /\ \A p, q \in DOMAIN r.results :
              p < q => r.results[p].score >= r.results[q].score
        /\ \A p \in DOMAIN r.results :
              /\ PassesFilters(r.results[p].message)
              /\ r.results[p].score =
                    Dot(encode(r.results[p].message.text), encode(q_request.query))
        /\ (\A p \in DOMAIN q_request.messages_with_tags :
               ~PassesFilters(q_request.messages_with_tags[p]))
              => r.results = <<>>

(***************************************************************************)
(* Properties of process_messages and its cache (checked under SpecOrch).  *)
(***************************************************************************)
TextList(messages) == [p \in DOMAIN messages |-> messages[p].text]

SameTextsAndParams(a, b) ==
    /\ TextList(a.messages) = TextList(b.messages)
    /\ a.distance_threshold = b.distance_threshold
    /\ a.min_cluster_size = b.min_cluster_size

SameMessagesAndParams(a, b) ==
    /\ a.messages = b.messages
    /\ a.distance_threshold = b.distance_threshold
    /\ a.min_cluster_size = b.min_cluster_size

PipelineStages == {"embed", "hierarchy", "labels", "output"}

KeyOf(request) ==
    generate_cache_key(request.messages, request.distance_threshold,
                       request.min_cluster_size)

\* the calls that had completed successfully, with no clear since, when the
\* latest call began
CompletedBefore == IF o_last = NoCall THEN {} ELSE o_last.completed_before

\* the latest call repeats the texts and parameters of the completed call c
\* and does not force a recomputation
RepeatsCompletedCall(c) ==
    /\ SameTextsAndParams(c.request, o_last.request)
    /\ ~o_last.request.force_recluster

\* C5: cache hit on identical request: with caching enabled and no clear in
\* between, a call with the texts and parameters of an earlier successful call
\* and force_recluster = false returns the stored output and enters none of the
\* stages embedding, hierarchy, labels, output.
C5_CacheHitOnIdenticalRequest ==
    o_enable_cache =>
        \A c \in CompletedBefore :
            RepeatsCompletedCall(c) =>
                /\ o_last.outcome = "returned"
                /\ o_last.result = c.result
                /\ Range(o_last.steps) \cap PipelineStages = {}

\* C5 witness: the latest call repeats the texts and parameters of a completed
\* call with a different message list, and is answered by the cache.
C5_Witness ==
    /\ o_enable_cache
    /\ \E c \in CompletedBefore :
          /\ RepeatsCompletedCall(c)
          /\ c.request.messages # o_last.request.messages
          /\ o_last.outcome = "returned"
          /\ o_last.steps = <<"key", "load">>

\* C6: cache reuse only for identical requests: a request maps to the cache key
\* of a request served before only if its message list and its parameters are
\* identical to those of that request.
C6_ReuseOnlyForIdenticalRequests ==
    \A c \in CompletedBefore :
        KeyOf(c.request) = KeyOf(o_last.request) =>
            SameMessagesAndParams(c.request, o_last.request)

\* C7: partial results are never cached: a call that raises leaves the cache
\* as it was before the call, and a call that changes the cache has built the
\* complete output and saves it as its last step.
C7_PartialResultsNeverCached ==
    o_last # NoCall =>
        /\ o_last.outcome = "raised" => ~o_last.wrote
        /\ o_last.wrote =>
              /\ o_last.outcome = "returned"
              /\ o_last.steps[Len(o_last.steps)] = "save"
              /\ "output" \in Range(o_last.steps)

\* C7 witness: with caching enabled and a file in the cache, the latest call
\* raised in the output stage, after embedding, hierarchy and labels.
C7_Witness ==
    /\ o_enable_cache
    /\ o_cache # EmptyCache
    /\ o_last # NoCall
    /\ o_last.outcome = "raised"
    /\ "output" \in Range(o_last.steps)

\* the latest call was made with force_recluster = true
ForcedCall == o_last # NoCall /\ o_last.request.force_recluster

\* the forced call did not look into the cache
ForcedCallSkipsLoad == ForcedCall => "load" \notin Range(o_last.steps)

StageOrder ==
    <<"ids", "load", "embed", "hierarchy", "labels", "output", "save">>

StepIndex(steps, stage) == CHOOSE p \in DOMAIN steps : steps[p] = stage

\* C24: orchestration order: the stages of every run happen in the order
\* assign message IDs, check cache, embed, hierarchy (conversations, then
\* topics), labels, output, write cache; the message IDs are assigned before
\* the cache is consulted, hence on every run, also one that ends in a hit.
C24_OrchestrationOrder ==
    o_last # NoCall =>
        /\ "ids" \in Range(o_last.steps)
        /\ \A a, b \in DOMAIN StageOrder :
              (/\ a < b
               /\ StageOrder[a] \in Range(o_last.steps)
               /\ StageOrder[b] \in Range(o_last.steps))
                  => StepIndex(o_last.steps, StageOrder[a])
                        < StepIndex(o_last.steps, StageOrder[b])

\* the latest call entered the hierarchy stage with an override
ClusteredWithOverride ==
    /\ o_last # NoCall
    /\ "hierarchy" \in Range(o_last.steps)
    /\ \/ o_last.request.distance_threshold # NoneValue
       \/ o_last.request.min_cluster_size # NoneValue

\* C26: parameter overrides take effect: a run called with a distance
\* threshold or a minimum cluster size clusters with these values instead of
\* the defaults, and the metadata of a returned output reports the values the
\* run clustered with.
C26_OverridesTakeEffect ==
    ClusteredWithOverride =>
        /\ o_last.request.distance_threshold # NoneValue =>
              o_last.params[1].distance_threshold
                  = o_last.request.distance_threshold[1]
        /\ o_last.request.min_cluster_size # NoneValue =>
              o_last.params[1].min_cluster_size
                  = o_last.request.min_cluster_size[1]
        /\ o_last.outcome = "returned" =>
              o_last.result.metadata.clustering_params = o_last.params[1]

\* the cluster infos of an output with the given cluster_id
InfosWithId(result, cluster_id) ==
    {p \in DOMAIN result.clusters : result.clusters[p].cluster_id = cluster_id}

\* entry p of the output's message list is the p-th input message, tagged
\* with its conversation and the tags of the topic above it
TaggedAsClaimed(result, messages, p) ==
    /\ result.messages[p].text = messages[p].text
    /\ result.messages[p].channel = messages[p].channel
    /\ result.messages[p].user = messages[p].user
    /\ result.messages[p].timestamp = messages[p].timestamp
    /\ result.messages[p].message_id # NoneValue
    /\ result.messages[p].cluster_id # NoneValue
    /\ \E c \in InfosWithId(result, result.messages[p].cluster_id[1]) :
          /\ result.clusters[c].child_cluster_ids = <<>>
          /\ result.messages[p].message_id \in Range(result.clusters[c].message_ids)
          /\ \E t \in InfosWithId(result, result.clusters[c].parent_cluster_id[1]) :
                result.messages[p].tags = result.clusters[t].tags

\* C29: tagged output messages: a run that reaches the output stage returns
\* one entry per input message, in input order, with the message's fields
\* copied, the id of its conversation as cluster_id and the tags of the topic
\* that is the parent of that conversation.
C29_TaggedOutputMessages ==
    (o_last # NoCall /\ "output" \in Range(o_last.steps)) =>
        /\ o_last.outcome = "returned"
        /\ Len(o_last.result.messages) = Len(o_last.request.messages)
        /\ \A p \in DOMAIN o_last.request.messages :
              TaggedAsClaimed(o_last.result, o_last.request.messages, p)

(***************************************************************************)
(* Properties of the cache methods on the files (checked under SpecCache). *)
(***************************************************************************)
\* C21: no cache method raises to its caller: a load that finds no file, a
\* text cut short or a document of another schema returns None, and a save
\* that fails at the open or at a write returns normally.
C21_CacheErrorsAreMisses ==
    /\ c_last.raised = ""
    /\ c_last.op = "load" /\ c_last.found # "complete"
          => c_last.result = NoneValue

\* a load has just found, with no writer at work, the partial file that a
\* save of this program left under the key, and has returned None
C21_Witness ==
    /\ c_last.op = "load"
    /\ c_last.found = "broken"
    /\ ~c_last.foreign
    /\ c_last.result = NoneValue
    /\ \A p \in CacheCallers : c_procs[p].pc = "idle"

\* C22: at every moment the file under a key that this program wrote is
\* absent or the complete text of one output.
C22_AtomicPut ==
    \A k \in FileKeys :
        k \notin c_foreign =>
            \/ c_files[k] = NoFile
            \/ c_files[k][1] \in {json_dump(o) : o \in CacheOutputs}

\* C23: once no save of a key is at work, the file of the key is the text
\* of the output of the save that finished last, and a load returns it.
C23_LastWriterWins ==
    \A k \in FileKeys :
        (/\ c_lastsave[k] # <<>>
         /\ \A p \in CacheCallers :
               ~(c_procs[p].pc = "saving" /\ c_procs[p].key = k))
            => /\ c_files[k] = <<json_dump(c_lastsave[k][1])>>
               /\ json_load(c_files[k][1]) # NoneValue

\* == of two outputs as Python compares them: nan is not equal to nan
PyEq(a, b) == a.label = b.label /\ a.centroid = b.centroid /\ a.centroid # "nan"

\* C27: a load of a key after a completed save of it, with no other open,
\* write or clear of the key since that save began, returns an output equal
\* to the saved one.
C27_RoundTrip ==
    (c_last.op = "load" /\ c_last.settled # <<>>)
        => /\ c_last.result # NoneValue
           /\ PyEq(c_last.result[1], c_last.settled[1])

=============================================================================
